---- MODULE Spec2Model ----
(***************************************************************************)
(* Schema evolution engine of grayv-lsm: the migration runner              *)
(* (internal/database/migration/migration.go) over a Postgres ledger       *)
(* table, the seeder (internal/database/seed/seeder.go) and the commands   *)
(* that drive them (cmd/db.go).  Strings are sequences of one-character    *)
(* strings; SQL text and file bodies are sequences of SQL tokens.          *)
(***************************************************************************)
EXTENDS Integers, Sequences, FiniteSets, TLC

\* ------------------------------------------------------------------ bounds
MaxCalls == 3          \* LoadMigrations/Migrate/Rollback calls on one Migrator
MaxSteps == 2          \* largest steps argument given to Rollback()
MaxDirSize == 3        \* files in the migrations directory
MaxPrefixLen == 3      \* characters of a file name before its fixed ending

Procs == {1, 2}        \* command invocations, each with its own Migrator
MainProc == 1

\* ------------------------------------------------------- strings (Go stdlib)
Digits == <<"0", "1", "2", "3", "4", "5", "6", "7", "8", "9">>
IsDigit(c) == \E k \in 1..10 : Digits[k] = c
DigitVal(c) == (CHOOSE k \in 1..10 : Digits[k] = c) - 1

\* strings.Split(s, sep) for a one-element separator
RECURSIVE Split(_, _)
Split(s, sep) ==
  LET idx == {k \in 1..Len(s) : s[k] = sep}
  IN IF idx = {} THEN <<s>>
     ELSE LET k == CHOOSE x \in idx : \A y \in idx : x <= y
          IN <<SubSeq(s, 1, k - 1)>> \o Split(SubSeq(s, k + 1, Len(s)), sep)

\* filepath.Ext: the suffix beginning at the final dot, empty if there is none
Ext(name) ==
  LET idx == {k \in 1..Len(name) : name[k] = "."}
  IN IF idx = {} THEN <<>>
     ELSE LET k == CHOOSE x \in idx : \A y \in idx : x >= y
          IN SubSeq(name, k, Len(name))

SqlExt == <<".", "s", "q", "l">>

\* decimal digits of math.MaxInt64 = 9223372036854775807
MaxInt64Digits == <<9, 2, 2, 3, 3, 7, 2, 0, 3, 6, 8, 5, 4, 7, 7, 5, 8, 0, 7>>

RECURSIVE StripZeros(_)
StripZeros(ds) ==
  IF Len(ds) > 1 /\ ds[1] = 0 THEN StripZeros(Tail(ds)) ELSE ds

\* ds <= limit, both digit sequences without leading zeros
RECURSIVE DigitsLeq(_, _)
DigitsLeq(ds, limit) ==
  IF Len(ds) # Len(limit) THEN Len(ds) < Len(limit)
  ELSE IF ds = <<>> THEN TRUE
  ELSE IF ds[1] # limit[1] THEN ds[1] < limit[1]
  ELSE DigitsLeq(Tail(ds), Tail(limit))

RECURSIVE DigitsValue(_)
DigitsValue(ds) ==
  IF ds = <<>> THEN 0 ELSE DigitsValue(SubSeq(ds, 1, Len(ds) - 1)) * 10 + ds[Len(ds)]

\* a conversion that takes decimal digits only, as strconv.ParseUint does
ParseDigits(s) ==
  IF s = <<>> \/ \E k \in 1..Len(s) : ~IsDigit(s[k])
    THEN [ok |-> FALSE, val |-> 0]
  ELSE LET ds == StripZeros([k \in 1..Len(s) |-> DigitVal(s[k])])
       IN IF ~DigitsLeq(ds, MaxInt64Digits) THEN [ok |-> FALSE, val |-> 0]
          ELSE [ok |-> TRUE, val |-> DigitsValue(ds)]

\* strconv.ParseInt(s, 10, 64): optional sign, then one or more decimal
\* digits; a syntax error otherwise, a range error outside int64.
ParseInt(s) ==
  LET signed == s # <<>> /\ s[1] \in {"+", "-"}
      neg    == s # <<>> /\ s[1] = "-"
      body   == IF signed THEN Tail(s) ELSE s
  IN IF body = <<>> \/ \E k \in 1..Len(body) : ~IsDigit(body[k])
       THEN [ok |-> FALSE, val |-> 0]
     ELSE LET ds == StripZeros([k \in 1..Len(body) |-> DigitVal(body[k])])
              fits == DigitsLeq(ds, MaxInt64Digits)
                        \/ (neg /\ ds = [MaxInt64Digits EXCEPT ![19] = 8])
          IN IF ~fits THEN [ok |-> FALSE, val |-> 0]
             ELSE [ok |-> TRUE,
                   val |-> IF neg THEN 0 - DigitsValue(ds) ELSE DigitsValue(ds)]

parseVersionFromFilename(filename) ==
  LET parts == Split(filename, "_")
  IN IF Len(parts) < 2 THEN [ok |-> FALSE, val |-> 0]
     ELSE ParseInt(parts[1])

\* ---------------------------------------------------------------- SQL text
\* A token of SQL text: "add"/"drop" change the count of schema object obj
\* (add is not idempotent, as an INSERT or ALTER TABLE ADD is), "nop" changes
\* nothing, " " is white space and "-- Down" is the delimiter of a file body.
Tok(op, obj) == [op |-> op, obj |-> obj]
DownMark == Tok("-- Down", 0)
Space == Tok(" ", 0)
Objs == 0..3

RECURSIVE ExecSQL(_, _)
ExecSQL(sql, s) ==
  IF sql = <<>> THEN s
  ELSE LET t == Head(sql)
           s1 == CASE t.op = "add"  -> [s EXCEPT ![t.obj] = @ + 1]
                   [] t.op = "drop" -> [s EXCEPT ![t.obj] = IF @ > 0 THEN @ - 1 ELSE 0]
                   [] OTHER -> s
       IN ExecSQL(Tail(sql), s1)

\* strings.TrimSpace
RECURSIVE TrimLeft(_)
TrimLeft(s) == IF s # <<>> /\ Head(s) = Space THEN TrimLeft(Tail(s)) ELSE s
RECURSIVE TrimRight(_)
TrimRight(s) ==
  IF s # <<>> /\ s[Len(s)] = Space THEN TrimRight(SubSeq(s, 1, Len(s) - 1)) ELSE s
TrimSpace(s) == TrimRight(TrimLeft(s))

\* ------------------------------------------------------- migration source
File(name, body) == [name |-> name, body |-> body]

\* The files a migrations directory is drawn from, in filename (byte) order,
\* the order ioutil.ReadDir lists them in.
Catalog ==
  << File(<<"0", "3", "_", "b", ".", "s", "q", "l">>,
          <<Tok("add", 0), DownMark, Tok("nop", 0)>>),
     File(<<"1", "_", "a", ".", "s", "q", "l">>,
          <<Tok("add", 1), Space, DownMark, Space, Tok("drop", 1)>>),
     File(<<"2", "_", "a", ".", "s", "q", "l">>,
          <<Tok("add", 2), Space, DownMark, Space, Tok("drop", 2)>>),
     File(<<"2", "_", "b", "a", "d", ".", "s", "q", "l">>,
          <<Tok("add", 2), Space, Tok("drop", 2)>>),
     File(<<"3", "_", "a", ".", "s", "q", "l">>,
          <<Tok("add", 3), Space, DownMark, Space, Tok("drop", 3)>>),
     File(<<"3", "_", "t", "w", "o", ".", "s", "q", "l">>,
          <<Tok("add", 3), DownMark, Tok("drop", 3), DownMark, Tok("nop", 0)>>),
     File(<<"R", "E", "A", "D", "M", "E", ".", "m", "d">>,
          <<Tok("nop", 0)>>),
     File(<<"x", "_", "a", ".", "s", "q", "l">>,
          <<Tok("add", 1), DownMark, Tok("drop", 1)>>) >>

FileIds == 1..Len(Catalog)
Dirs == {d \in SUBSET FileIds : Cardinality(d) <= MaxDirSize}

SqlFiles(d) == {id \in d : Ext(Catalog[id].name) = SqlExt}

\* occurrences of the delimiter in a file body
DownCount(body) == Cardinality({k \in 1..Len(body) : body[k] = DownMark})

\* the directories whose .sql files are named <integer>_<anything> and hold
\* at most one delimiter
CoreDirs ==
  {d \in Dirs : \A id \in SqlFiles(d) :
     DownCount(Catalog[id].body) <= 1 /\ parseVersionFromFilename(Catalog[id].name).ok}

NoMigration == [Version |-> 0, Name |-> <<>>, UpSQL |-> <<>>, DownSQL |-> <<>>]

\* parseMigrationFile that only asks for a "-- Down" to be there
parseMigrationFileLenient(f) ==
  LET parts == Split(f.body, DownMark)
      version == parseVersionFromFilename(f.name)
  IN IF Len(parts) < 2 \/ ~version.ok
       THEN [ok |-> FALSE, migration |-> NoMigration]
     ELSE [ok |-> TRUE,
           migration |-> [Version |-> version.val, Name |-> f.name,
                          UpSQL |-> TrimSpace(parts[1]),
                          DownSQL |-> TrimSpace(parts[2])]]

\* parseMigrationFile of a file ioutil.ReadFile can read
parseMigrationFile(f) ==
  LET parts == Split(f.body, DownMark)
      version == parseVersionFromFilename(f.name)
  IN IF Len(parts) # 2 \/ ~version.ok
       THEN [ok |-> FALSE, migration |-> NoMigration]
     ELSE [ok |-> TRUE,
           migration |-> [Version |-> version.val, Name |-> f.name,
                          UpSQL |-> TrimSpace(parts[1]),
                          DownSQL |-> TrimSpace(parts[2])]]

NoSort(ms) == ms

\* a sort that keeps one definition per version
RECURSIVE SortUnique(_)
SortUnique(ms) ==
  IF Len(ms) <= 1 THEN ms
  ELSE LET init == SortUnique(SubSeq(ms, 1, Len(ms) - 1))
           x == ms[Len(ms)]
           before == {k \in 1..Len(init) : init[k].Version <= x.Version}
           n == Cardinality(before)
       IN IF \E k \in 1..Len(init) : init[k].Version = x.Version THEN init
          ELSE SubSeq(init, 1, n) \o <<x>> \o SubSeq(init, n + 1, Len(init))

\* sort.Slice by Version: for the slice lengths reached here (at most 12) Go
\* runs an insertion sort, which keeps equal versions in their slice order.
RECURSIVE InsertionSort(_)
InsertionSort(ms) ==
  IF Len(ms) <= 1 THEN ms
  ELSE LET init == InsertionSort(SubSeq(ms, 1, Len(ms) - 1))
           x == ms[Len(ms)]
           before == {k \in 1..Len(init) : init[k].Version <= x.Version}
           n == Cardinality(before)
       IN SubSeq(init, 1, n) \o <<x>> \o SubSeq(init, n + 1, Len(init))

\* the loop passing over a file that fails to parse and reporting at the end
RECURSIVE LoadLoopKeepGoing(_, _)
LoadLoopKeepGoing(ms, ids) ==
  IF ids = {} THEN [ok |-> TRUE, migrations |-> ms]
  ELSE LET id == CHOOSE x \in ids : \A y \in ids : x <= y
           f == Catalog[id]
       IN IF Ext(f.name) # SqlExt THEN LoadLoopKeepGoing(ms, ids \ {id})
          ELSE LET r == parseMigrationFile(f)
               IN IF ~r.ok
                    THEN [ok |-> FALSE,
                          migrations |-> LoadLoopKeepGoing(ms, ids \ {id}).migrations]
                  ELSE LET rest == LoadLoopKeepGoing(Append(ms, r.migration), ids \ {id})
                       IN rest

\* The loop of LoadMigrations over the directory listing ids (ascending file
\* ids), appending to ms; it stops at the first file that fails to parse.
RECURSIVE LoadLoop(_, _)
LoadLoop(ms, ids) ==
  IF ids = {} THEN [ok |-> TRUE, migrations |-> ms]
  ELSE LET id == CHOOSE x \in ids : \A y \in ids : x <= y
           f == Catalog[id]
       IN IF Ext(f.name) # SqlExt THEN LoadLoop(ms, ids \ {id})
          ELSE LET r == parseMigrationFile(f)
               IN IF ~r.ok THEN [ok |-> FALSE, migrations |-> ms]
                  ELSE LoadLoop(Append(ms, r.migration), ids \ {id})

\* ------------------------------------------------------------------ state
VARIABLES
  dir,               \* the migrations directory: ids of the Catalog files in it
  tableExists,       \* database: the ledger table "migrations" exists
  ledger,            \* database: committed ledger rows [version, name]
  schema,            \* database: committed count of every schema object
  migrations,        \* Migrator.migrations of each process
  pc,                \* position of each process in Migrate()/Rollback()
  steps,             \* argument of the running Rollback(steps)
  appliedMigrations, \* local appliedMigrations of the running call
  i,                 \* loop index of the running call
  tx,                \* the open *sql.Tx of each process
  ret,               \* what the last returned call returned: "nil" or "err"
  calls,             \* calls each process has made on its Migrator
  call,              \* history: the current or last call of each process
  prev,              \* history: summary of the call before it
  lastTx,            \* history: kind of the last committed transaction per version
  seedDir,           \* the seeds directory: ids of the SeedCatalog files in it
  seeds,             \* Seeder.seeds of each process
  seedCall,          \* history: file reads and tx.Exec calls of the seeder call
  cmd,               \* the command each process runs and its exit status
  parsed             \* a file name of the directory, and whether the loader has parsed it

dbVars == <<tableExists, ledger, schema>>
ctlVars == <<pc, steps, appliedMigrations, i, tx, ret>>
migVars == <<dir, tableExists, ledger, migrations, steps, appliedMigrations, lastTx>>
seedVars == <<seedDir, seeds, seedCall>>
vars == <<dir, tableExists, ledger, schema, migrations, pc, steps,
          appliedMigrations, i, tx, ret, calls, call, prev, lastTx,
          seedDir, seeds, seedCall, cmd, parsed>>

Row(version, name) == [version |-> version, name |-> name]
Versions(rows) == {r.version : r \in rows}
LoadedVersions(ms) == {ms[k].Version : k \in 1..Len(ms)}

NoTx == [open |-> FALSE, sql |-> <<>>, ins |-> {}, del |-> {}]

\* History of one call: the database when it started (ledger0, schema0) and
\* when its last transaction began (txLedger, txSchema); the versions it
\* called runMigration/rollbackMigration for (attempted), those it opened a
\* transaction for (opened), the transactions it committed (log), how many
\* database calls it issued, and the step that failed, if one did.
NoCall == [op |-> "none", ledger0 |-> {}, schema0 |-> [o \in Objs |-> 0],
           log |-> <<>>, attempted |-> <<>>, opened |-> <<>>, dbCalls |-> 0,
           failed |-> "none", failedVersion |-> 0,
           txLedger |-> {}, txSchema |-> [o \in Objs |-> 0]]
\* what is kept of a call once the next one starts
Summary(c, r) == [op |-> c.op, ret |-> r, ledger0 |-> c.ledger0,
                  schema0 |-> c.schema0, log |-> c.log, failed |-> c.failed,
                  failedVersion |-> c.failedVersion]
NewCall(op) == [NoCall EXCEPT !.op = op, !.ledger0 = ledger, !.schema0 = schema,
                              !.txLedger = ledger, !.txSchema = schema]

\* The migrations the Catalog can yield, and the databases they can have left
\* behind: any set of them with distinct versions, each applied once.
ValidMigrations ==
  {parseMigrationFile(Catalog[id]).migration :
     id \in {x \in FileIds : Ext(Catalog[x].name) = SqlExt
                               /\ parseMigrationFile(Catalog[x]).ok}}

RECURSIVE ApplyAll(_, _)
ApplyAll(ms, s) ==
  IF ms = {} THEN s
  ELSE LET m == CHOOSE x \in ms : TRUE
       IN ApplyAll(ms \ {m}, ExecSQL(m.UpSQL, s))

InitialApplied ==
  {ms \in SUBSET ValidMigrations :
     \A a, b \in ms : a.Version = b.Version => a = b}

\* History of one seeder call: the files LoadSeeds tried to read (read), the
\* files ReadFile failed on (unreadable), the files its error names (named),
\* and the SQL texts Seed handed to tx.Exec (execs).
NoSeedCall == [read |-> <<>>, named |-> <<>>, execs |-> <<>>, unreadable |-> {}]
\* a process before its command line is run: the command name, the steps
\* argument of rollback, whether Run is running or the process has exited,
\* its exit status, whether Run logged an error of the engine, and the
\* number in rollback's "Rolled back %d migration(s) successfully"
NoCmd == [name |-> "none", steps |-> 0, running |-> FALSE, exited |-> FALSE,
          status |-> 0, logged |-> FALSE, reported |-> 0]

\* no file name is handed to parseMigrationFile on its own
NoParse == [name |-> <<>>, done |-> FALSE]

\* no seeder and no command: the Migrator is driven directly
NoSeeder ==
  /\ seedDir = {}
  /\ seeds = [p \in Procs |-> <<>>]
  /\ seedCall = [p \in Procs |-> NoSeedCall]
  /\ cmd = [p \in Procs |-> NoCmd]
  /\ parsed = NoParse

\* a database and a migrations directory drawn from dirs, with new Migrators
InitWith(dirs) ==
  /\ NoSeeder
  /\ dir \in dirs
  /\ \E ms \in InitialApplied, exists \in BOOLEAN :
       /\ exists \/ ms = {}
       /\ tableExists = exists
       /\ ledger = {Row(m.Version, m.Name) : m \in ms}
       /\ schema = ApplyAll(ms, [o \in Objs |-> 0])
       /\ lastTx = [v \in {m.Version : m \in ValidMigrations}
                      |-> IF v \in {m.Version : m \in ms} THEN "up" ELSE "none"]
  /\ migrations = [p \in Procs |-> <<>>]
  /\ pc = [p \in Procs |-> "idle"]
  /\ steps = [p \in Procs |-> 0]
  /\ appliedMigrations = [p \in Procs |-> <<>>]
  /\ i = [p \in Procs |-> 0]
  /\ tx = [p \in Procs |-> NoTx]
  /\ ret = [p \in Procs |-> "none"]
  /\ calls = [p \in Procs |-> 0]
  /\ call = [p \in Procs |-> NoCall]
  /\ prev = [p \in Procs |-> Summary(NoCall, "none")]

Init == InitWith(CoreDirs)

\* ------------------------------------------------------------- transactions
TxExecAutocommit(t, sql, s) == [tx |-> t, schema |-> ExecSQL(sql, s)]

\* tx.Exec of a block of SQL text: the statements are pending in the
\* transaction and the committed schema is untouched.
TxExec(t, sql, s) == [tx |-> [t EXCEPT !.sql = @ \o sql], schema |-> s]
\* tx.Exec("INSERT INTO migrations ...") and tx.Exec("DELETE FROM migrations ...")
TxInsert(t, row) == [t EXCEPT !.ins = @ \cup {row}]
TxDeleteNothing(t, version) == t
TxDelete(t, version) == [t EXCEPT !.del = @ \cup {version}]
TxCommitKeepsRows(t, l, s) ==
  [ledger |-> l \cup t.ins, schema |-> ExecSQL(t.sql, s)]

\* tx.Commit(): the pending statements and ledger changes take effect at once
TxCommit(t, l, s) ==
  [ledger |-> {r \in l : r.version \notin t.del} \cup t.ins,
   schema |-> ExecSQL(t.sql, s)]

\* a ledger without its primary key
PrimaryKeyMissing(l, version) == TRUE

\* the primary key of the ledger table rejects a second row for a version
PrimaryKeyFree(l, version) == version \notin Versions(l)

\* the INSERT of p waits while the open transaction of another connection
\* holds an uncommitted row with the same primary key
InsertWaits(p, version) ==
  \E q \in Procs \ {p} : tx[q].open /\ version \in Versions(tx[q].ins)

\* the DELETE of p waits while the open transaction of another connection
\* has deleted the row and not yet committed
DeleteWaits(p, version) ==
  /\ version \in Versions(ledger)
  /\ \E q \in Procs \ {p} : tx[q].open /\ version \in tx[q].del

RECURSIVE SortAscending(_)
SortAscending(vs) ==
  IF vs = {} THEN <<>>
  ELSE LET v == CHOOSE x \in vs : \A y \in vs : x <= y
       IN <<v>> \o SortAscending(vs \ {v})

\* "SELECT version FROM migrations ORDER BY version DESC"
RECURSIVE SortDesc(_)
SortDesc(vs) ==
  IF vs = {} THEN <<>>
  ELSE LET v == CHOOSE x \in vs : \A y \in vs : x >= y
       IN <<v>> \o SortDesc(vs \ {v})

containsNever(slice, item) == FALSE
contains(slice, item) == \E k \in 1..Len(slice) : slice[k] = item

\* findMigration returning the last loaded migration with this version
findMigrationLast(ms, version) ==
  LET idx == {k \in 1..Len(ms) : ms[k].Version = version}
  IN IF idx = {} THEN 0 ELSE CHOOSE x \in idx : \A y \in idx : x >= y

\* index of the first loaded migration with this version, 0 for nil
findMigration(ms, version) ==
  LET idx == {k \in 1..Len(ms) : ms[k].Version = version}
  IN IF idx = {} THEN 0 ELSE CHOOSE x \in idx : \A y \in idx : x <= y

\* ------------------------------------------------------------ call plumbing
StartCall(p, op) ==
  /\ pc[p] = "idle"
  /\ calls[p] < MaxCalls
  /\ calls' = [calls EXCEPT ![p] = @ + 1]
  /\ prev' = [prev EXCEPT ![p] = Summary(call[p], ret[p])]

\* the call returns r; a deferred tx.Rollback() discards an open transaction
Return(p, r) ==
  /\ pc' = [pc EXCEPT ![p] = "idle"]
  /\ ret' = [ret EXCEPT ![p] = r]
  /\ tx' = [tx EXCEPT ![p] = NoTx]

\* the failed database call is made again instead of returning its error
FailRetried(p, step, version) ==
  /\ UNCHANGED <<pc, ret, tx>>
  /\ call' = [call EXCEPT ![p].failed = step, ![p].failedVersion = version]

\* a database call of the running call fails: the call returns the error
Fail(p, step, version) ==
  /\ Return(p, "err")
  /\ call' = [call EXCEPT ![p].dbCalls = @ + 1, ![p].failed = step,
                          ![p].failedVersion = version]

\* ------------------------------------------------------------ LoadMigrations
\* The whole of LoadMigrations(dir): it touches the file system and the
\* Migrator only.  readDir is the outcome of ioutil.ReadDir; the files it
\* lists can be read.
LoadMigrations(p) ==
  /\ StartCall(p, "LoadMigrations")
  /\ \E readDir \in BOOLEAN :
       LET r == LoadLoop(migrations[p], dir)
       IN /\ migrations' = [migrations EXCEPT ![p] =
                 IF ~readDir THEN @
                 ELSE IF r.ok THEN InsertionSort(r.migrations)
                 ELSE r.migrations]
          /\ ret' = [ret EXCEPT ![p] = IF readDir /\ r.ok THEN "nil" ELSE "err"]
  /\ call' = [call EXCEPT ![p] = NewCall("LoadMigrations")]
  /\ UNCHANGED <<dir, dbVars, pc, steps, appliedMigrations, i, tx, lastTx>>

\* ------------------------------------------------------------------ Migrate
Migrate(p) ==
  /\ StartCall(p, "Migrate")
  /\ call' = [call EXCEPT ![p] = NewCall("Migrate")]
  /\ pc' = [pc EXCEPT ![p] = "createMigrationsTable"]
  /\ UNCHANGED <<dir, dbVars, migrations, steps, appliedMigrations, i, tx, ret,
                 lastTx>>

createMigrationsTable(p) ==
  /\ pc[p] = "createMigrationsTable"
  /\ \/ /\ tableExists' = TRUE
        /\ pc' = [pc EXCEPT ![p] = "getAppliedMigrations"]
        /\ call' = [call EXCEPT ![p].dbCalls = @ + 1]
        /\ UNCHANGED <<tx, ret>>
     \/ /\ Fail(p, "create", 0)
        /\ UNCHANGED tableExists
  /\ UNCHANGED <<dir, ledger, schema, migrations, steps, appliedMigrations, i,
                 calls, prev, lastTx>>

\* getAppliedMigrations, called by Migrate and by Rollback: the query fails
\* when the table is missing, and may fail for any other reason.
getAppliedMigrations(p) ==
  /\ pc[p] = "getAppliedMigrations"
  /\ \/ /\ tableExists
        /\ appliedMigrations' = [appliedMigrations EXCEPT ![p] = SortDesc(Versions(ledger))]
        /\ i' = [i EXCEPT ![p] = 0]
        /\ pc' = [pc EXCEPT ![p] =
                    IF call[p].op = "Migrate" THEN "migrateLoop" ELSE "rollbackLoop"]
        /\ call' = [call EXCEPT ![p].dbCalls = @ + 1]
        /\ UNCHANGED <<tx, ret>>
     \/ /\ Fail(p, "query", 0)
        /\ UNCHANGED <<appliedMigrations, i>>
  /\ UNCHANGED <<dir, dbVars, migrations, steps, calls, prev, lastTx>>

\* one iteration of "for _, migration := range m.migrations"
migrateLoop(p) ==
  /\ pc[p] = "migrateLoop"
  /\ \/ /\ i[p] >= Len(migrations[p])
        /\ Return(p, "nil")
        /\ UNCHANGED <<i, call>>
     \/ /\ i[p] < Len(migrations[p])
        /\ contains(appliedMigrations[p], migrations[p][i[p] + 1].Version)
        /\ i' = [i EXCEPT ![p] = @ + 1]
        /\ UNCHANGED <<pc, tx, ret, call>>
     \/ /\ i[p] < Len(migrations[p])
        /\ ~contains(appliedMigrations[p], migrations[p][i[p] + 1].Version)
        /\ pc' = [pc EXCEPT ![p] = "run.Begin"]
        /\ call' = [call EXCEPT ![p].attempted =
                      Append(@, migrations[p][i[p] + 1].Version)]
        /\ UNCHANGED <<i, tx, ret>>
  /\ UNCHANGED <<dir, dbVars, migrations, steps, appliedMigrations, calls, prev,
                 lastTx>>

\* runMigration(migration), one action per database call
runBegin(p) ==
  /\ pc[p] = "run.Begin"
  /\ LET m == migrations[p][i[p] + 1]
     IN \/ /\ tx' = [tx EXCEPT ![p] = [NoTx EXCEPT !.open = TRUE]]
           /\ pc' = [pc EXCEPT ![p] = "run.ExecUp"]
           /\ call' = [call EXCEPT ![p].dbCalls = @ + 1,
                                   ![p].opened = Append(@, m.Version),
                                   ![p].txLedger = ledger, ![p].txSchema = schema]
           /\ UNCHANGED ret
        \/ Fail(p, "begin", m.Version)
  /\ UNCHANGED <<dir, dbVars, migrations, steps, appliedMigrations, i, calls,
                 prev, lastTx>>

runExecUp(p) ==
  /\ pc[p] = "run.ExecUp"
  /\ LET m == migrations[p][i[p] + 1]
         r == TxExec(tx[p], m.UpSQL, schema)
     IN \/ /\ tx' = [tx EXCEPT ![p] = r.tx]
           /\ schema' = r.schema
           /\ pc' = [pc EXCEPT ![p] = "run.Insert"]
           /\ call' = [call EXCEPT ![p].dbCalls = @ + 1]
           /\ UNCHANGED ret
        \/ /\ Fail(p, "exec", m.Version)
           /\ UNCHANGED schema
  /\ UNCHANGED <<dir, tableExists, ledger, migrations, steps, appliedMigrations,
                 i, calls, prev, lastTx>>

runInsert(p) ==
  /\ pc[p] = "run.Insert"
  /\ LET m == migrations[p][i[p] + 1]
     IN \/ /\ tableExists
           /\ PrimaryKeyFree(ledger, m.Version)
           /\ ~InsertWaits(p, m.Version)
           /\ tx' = [tx EXCEPT ![p] = TxInsert(@, Row(m.Version, m.Name))]
           /\ pc' = [pc EXCEPT ![p] = "run.Commit"]
           /\ call' = [call EXCEPT ![p].dbCalls = @ + 1]
           /\ UNCHANGED ret
        \/ Fail(p, "insert", m.Version)
  /\ UNCHANGED <<dir, dbVars, migrations, steps, appliedMigrations, i, calls,
                 prev, lastTx>>

\* runCommit with the error of tx.Commit dropped: the loop goes on
runCommitIgnoreError(p) ==
  /\ pc[p] = "run.Commit"
  /\ LET m == migrations[p][i[p] + 1]
         db == TxCommit(tx[p], ledger, schema)
     IN \/ /\ ledger' = db.ledger
           /\ schema' = db.schema
           /\ lastTx' = [lastTx EXCEPT ![m.Version] = "up"]
           /\ call' = [call EXCEPT ![p].dbCalls = @ + 1,
                         ![p].log = Append(@, [kind |-> "up", Version |-> m.Version,
                                               Name |-> m.Name])]
        \/ /\ call' = [call EXCEPT ![p].dbCalls = @ + 1, ![p].failed = "commit",
                                    ![p].failedVersion = m.Version]
           /\ UNCHANGED <<ledger, schema, lastTx>>
  /\ tx' = [tx EXCEPT ![p] = NoTx]
  /\ i' = [i EXCEPT ![p] = @ + 1]
  /\ pc' = [pc EXCEPT ![p] = "migrateLoop"]
  /\ UNCHANGED <<dir, tableExists, migrations, steps, appliedMigrations, calls,
                 prev, ret>>

runCommit(p) ==
  /\ pc[p] = "run.Commit"
  /\ LET m == migrations[p][i[p] + 1]
         db == TxCommit(tx[p], ledger, schema)
     IN \/ /\ ledger' = db.ledger
           /\ schema' = db.schema
           /\ lastTx' = [lastTx EXCEPT ![m.Version] = "up"]
           /\ tx' = [tx EXCEPT ![p] = NoTx]
           /\ i' = [i EXCEPT ![p] = @ + 1]
           /\ pc' = [pc EXCEPT ![p] = "migrateLoop"]
           /\ call' = [call EXCEPT ![p].dbCalls = @ + 1,
                         ![p].log = Append(@, [kind |-> "up", Version |-> m.Version,
                                               Name |-> m.Name])]
           /\ UNCHANGED ret
        \/ /\ Fail(p, "commit", m.Version)
           /\ UNCHANGED <<ledger, schema, lastTx, i>>
  /\ UNCHANGED <<dir, tableExists, migrations, steps, appliedMigrations, calls,
                 prev>>

\* ----------------------------------------------------------------- Rollback
StepsArgs == (0 - 1)..MaxSteps

\* Rollback without its "if steps <= 0 { return nil }"
RollbackNoGuard(p, n) ==
  /\ StartCall(p, "Rollback")
  /\ call' = [call EXCEPT ![p] = NewCall("Rollback")]
  /\ steps' = [steps EXCEPT ![p] = n]
  /\ pc' = [pc EXCEPT ![p] = "getAppliedMigrations"]
  /\ UNCHANGED <<dir, dbVars, migrations, appliedMigrations, i, tx, ret, lastTx>>

\* Rollback that makes sure of the ledger table first, as Migrate does
RollbackCreatesTable(p, n) ==
  /\ StartCall(p, "Rollback")
  /\ call' = [call EXCEPT ![p] = NewCall("Rollback")]
  /\ steps' = [steps EXCEPT ![p] = n]
  /\ \/ /\ n <= 0
        /\ Return(p, "nil")
     \/ /\ n > 0
        /\ pc' = [pc EXCEPT ![p] = "createMigrationsTable"]
        /\ UNCHANGED <<tx, ret>>
  /\ UNCHANGED <<dir, dbVars, migrations, appliedMigrations, i, lastTx>>

Rollback(p, n) ==
  /\ StartCall(p, "Rollback")
  /\ call' = [call EXCEPT ![p] = NewCall("Rollback")]
  /\ steps' = [steps EXCEPT ![p] = n]
  /\ \/ /\ n <= 0
        /\ Return(p, "nil")
     \/ /\ n > 0
        /\ pc' = [pc EXCEPT ![p] = "getAppliedMigrations"]
        /\ UNCHANGED <<tx, ret>>
  /\ UNCHANGED <<dir, dbVars, migrations, appliedMigrations, i, lastTx>>

\* the migration the running Rollback is at: findMigration(appliedMigrations[i])
Current(p) ==
  migrations[p][findMigration(migrations[p], appliedMigrations[p][i[p] + 1])]

\* rollbackLoop that skips a version without a loaded definition
rollbackLoopSkipMissing(p) ==
  /\ pc[p] = "rollbackLoop"
  /\ \/ /\ ~(i[p] < steps[p] /\ i[p] < Len(appliedMigrations[p]))
        /\ Return(p, "nil")
        /\ UNCHANGED <<i, call>>
     \/ /\ i[p] < steps[p] /\ i[p] < Len(appliedMigrations[p])
        /\ findMigration(migrations[p], appliedMigrations[p][i[p] + 1]) = 0
        /\ i' = [i EXCEPT ![p] = @ + 1]
        /\ UNCHANGED <<pc, tx, ret, call>>
     \/ /\ i[p] < steps[p] /\ i[p] < Len(appliedMigrations[p])
        /\ findMigration(migrations[p], appliedMigrations[p][i[p] + 1]) # 0
        /\ pc' = [pc EXCEPT ![p] = "rb.Begin"]
        /\ call' = [call EXCEPT ![p].attempted = Append(@, Current(p).Version)]
        /\ UNCHANGED <<i, tx, ret>>
  /\ UNCHANGED <<dir, dbVars, migrations, steps, appliedMigrations, calls,
                 prev, lastTx>>

\* one iteration of "for i := 0; i < steps && i < len(appliedMigrations); i++"
rollbackLoop(p) ==
  /\ pc[p] = "rollbackLoop"
  /\ \/ /\ ~(i[p] < steps[p] /\ i[p] < Len(appliedMigrations[p]))
        /\ Return(p, "nil")
        /\ UNCHANGED call
     \/ /\ i[p] < steps[p] /\ i[p] < Len(appliedMigrations[p])
        /\ findMigration(migrations[p], appliedMigrations[p][i[p] + 1]) = 0
        /\ Return(p, "err")
        /\ call' = [call EXCEPT ![p].failed = "notfound",
                                ![p].failedVersion = appliedMigrations[p][i[p] + 1]]
     \/ /\ i[p] < steps[p] /\ i[p] < Len(appliedMigrations[p])
        /\ findMigration(migrations[p], appliedMigrations[p][i[p] + 1]) # 0
        /\ pc' = [pc EXCEPT ![p] = "rb.Begin"]
        /\ call' = [call EXCEPT ![p].attempted = Append(@, Current(p).Version)]
        /\ UNCHANGED <<tx, ret>>
  /\ UNCHANGED <<dir, dbVars, migrations, steps, appliedMigrations, i, calls,
                 prev, lastTx>>

\* rollbackMigration(migration), one action per database call
rbBegin(p) ==
  /\ pc[p] = "rb.Begin"
  /\ LET m == Current(p)
     IN \/ /\ tx' = [tx EXCEPT ![p] = [NoTx EXCEPT !.open = TRUE]]
           /\ pc' = [pc EXCEPT ![p] = "rb.ExecDown"]
           /\ call' = [call EXCEPT ![p].dbCalls = @ + 1,
                                   ![p].opened = Append(@, m.Version),
                                   ![p].txLedger = ledger, ![p].txSchema = schema]
           /\ UNCHANGED ret
        \/ Fail(p, "begin", m.Version)
  /\ UNCHANGED <<dir, dbVars, migrations, steps, appliedMigrations, i, calls,
                 prev, lastTx>>

rbExecDown(p) ==
  /\ pc[p] = "rb.ExecDown"
  /\ LET m == Current(p)
         r == TxExec(tx[p], m.DownSQL, schema)
     IN \/ /\ tx' = [tx EXCEPT ![p] = r.tx]
           /\ schema' = r.schema
           /\ pc' = [pc EXCEPT ![p] = "rb.Delete"]
           /\ call' = [call EXCEPT ![p].dbCalls = @ + 1]
           /\ UNCHANGED ret
        \/ /\ Fail(p, "exec", m.Version)
           /\ UNCHANGED schema
  /\ UNCHANGED <<dir, tableExists, ledger, migrations, steps, appliedMigrations,
                 i, calls, prev, lastTx>>

rbDelete(p) ==
  /\ pc[p] = "rb.Delete"
  /\ LET m == Current(p)
     IN \/ /\ tableExists
           /\ ~DeleteWaits(p, m.Version)
           /\ tx' = [tx EXCEPT ![p] = TxDelete(@, m.Version)]
           /\ pc' = [pc EXCEPT ![p] = "rb.Commit"]
           /\ call' = [call EXCEPT ![p].dbCalls = @ + 1]
           /\ UNCHANGED ret
        \/ Fail(p, "delete", m.Version)
  /\ UNCHANGED <<dir, dbVars, migrations, steps, appliedMigrations, i, calls,
                 prev, lastTx>>

rbCommit(p) ==
  /\ pc[p] = "rb.Commit"
  /\ LET m == Current(p)
         db == TxCommit(tx[p], ledger, schema)
     IN \/ /\ ledger' = db.ledger
           /\ schema' = db.schema
           /\ lastTx' = [lastTx EXCEPT ![m.Version] = "down"]
           /\ tx' = [tx EXCEPT ![p] = NoTx]
           /\ i' = [i EXCEPT ![p] = @ + 1]
           /\ pc' = [pc EXCEPT ![p] = "rollbackLoop"]
           /\ call' = [call EXCEPT ![p].dbCalls = @ + 1,
                         ![p].log = Append(@, [kind |-> "down", Version |-> m.Version,
                                               Name |-> m.Name])]
           /\ UNCHANGED ret
        \/ /\ Fail(p, "commit", m.Version)
           /\ UNCHANGED <<ledger, schema, lastTx, i>>
  /\ UNCHANGED <<dir, tableExists, migrations, steps, appliedMigrations, calls,
                 prev>>

\* ------------------------------------------------------------ specification
Step(p) ==
  \/ LoadMigrations(p)
  \/ Migrate(p)
  \/ createMigrationsTable(p)
  \/ getAppliedMigrations(p)
  \/ migrateLoop(p)
  \/ runBegin(p)
  \/ runExecUp(p)
  \/ runInsert(p)
  \/ runCommit(p)
  \/ \E n \in StepsArgs : Rollback(p, n)
  \/ rollbackLoop(p)
  \/ rbBegin(p)
  \/ rbExecDown(p)
  \/ rbDelete(p)
  \/ rbCommit(p)

\* The callers of a Migrator (cmd/db.go) return when LoadMigrations returns
\* an error: no further call is made on that Migrator.
CommandRuns(p) == ~(call[p].op = "LoadMigrations" /\ ret[p] = "err")

\* one process: a single Migrator, one call at a time
Next ==
  CommandRuns(MainProc) /\ Step(MainProc) /\ UNCHANGED <<seedVars, cmd, parsed>>
Spec == Init /\ [][Next]_vars

\* ------------------------------------------------------- shared definitions
AllVersions == {m.Version : m \in ValidMigrations}

Done(p, op) == pc[p] = "idle" /\ call[p].op = op

Distinct(ms) ==
  \A j, k \in 1..Len(ms) : j # k => ms[j].Version # ms[k].Version

RECURSIVE SortAsc(_)
SortAsc(vs) ==
  IF vs = {} THEN <<>>
  ELSE LET v == CHOOSE x \in vs : \A y \in vs : x <= y
       IN <<v>> \o SortAsc(vs \ {v})

\* indices of the loaded definitions whose version was not in the ledger when
\* the call of p started
PendingAt(p) ==
  {k \in 1..Len(migrations[p]) :
     migrations[p][k].Version \notin Versions(call[p].ledger0)}

\* the loaded definition with version v, for a list with distinct versions
Def(p, v) == migrations[p][findMigration(migrations[p], v)]

RECURSIVE UpAll(_, _, _)
UpAll(p, vs, s) ==
  IF vs = <<>> THEN s ELSE UpAll(p, Tail(vs), ExecSQL(Def(p, Head(vs)).UpSQL, s))

\* C1: a Migrate() call on a loaded list with distinct versions in which no
\* database step fails returns nil, has committed the up-statements of every
\* loaded version absent from the ledger exactly once in ascending version
\* order and nothing else, and ends with ledger = ledger before UNION loaded.
C1_MigrateAppliesPending ==
  \A p \in Procs :
    (Done(p, "Migrate") /\ call[p].failed = "none" /\ Distinct(migrations[p])) =>
      LET ms == migrations[p]
          vs == SortAsc({ms[k].Version : k \in PendingAt(p)})
          log == call[p].log
      IN /\ ret[p] = "nil"
         /\ Len(log) = Len(vs)
         /\ \A k \in 1..Len(vs) :
              log[k] = [kind |-> "up", Version |-> vs[k], Name |-> Def(p, vs[k]).Name]
         /\ ledger = call[p].ledger0
                       \cup {Row(ms[k].Version, ms[k].Name) : k \in PendingAt(p)}
         /\ Versions(ledger) = Versions(call[p].ledger0) \cup LoadedVersions(ms)
         /\ schema = UpAll(p, vs, call[p].schema0)

C1_Witness ==
  /\ Done(MainProc, "Migrate") /\ call[MainProc].failed = "none"
  /\ Distinct(migrations[MainProc])
  /\ Len(call[MainProc].log) >= 2
  /\ \E v \in LoadedVersions(migrations[MainProc]) :
       v \in Versions(call[MainProc].ledger0)

\* C2: in every reachable state a version is in the ledger if and only if
\* the last transaction committed for it is an up-transaction.
C2_LedgerInvariant ==
  \A v \in AllVersions : (v \in Versions(ledger)) <=> (lastTx[v] = "up")

C2_Witness ==
  /\ call[MainProc].op = "Rollback"
  /\ call[MainProc].log # <<>>
  /\ call[MainProc].failed \in {"begin", "exec", "delete", "commit"}
  /\ \E v \in AllVersions : lastTx[v] = "down"
  /\ \E v \in AllVersions : lastTx[v] = "up"

\* C3 (as amended): if executing the up-statements, inserting the ledger row
\* or committing fails for version v, then after runMigration returns the
\* schema and the ledger are exactly as before that transaction began; a
\* ledger row for v is present only if it was there before the transaction.
C3_RunMigrationAtomic ==
  \A p \in Procs :
    (Done(p, "Migrate") /\ call[p].failed \in {"exec", "insert", "commit"}) =>
      /\ ledger = call[p].txLedger
      /\ schema = call[p].txSchema
      /\ call[p].failedVersion \in Versions(ledger)
           => call[p].failedVersion \in Versions(call[p].txLedger)
      /\ ~tx[p].open

C3_Witness ==
  /\ Done(MainProc, "Migrate")
  /\ call[MainProc].failed = "commit"
  /\ call[MainProc].log # <<>>
  /\ call[MainProc].failedVersion \notin Versions(ledger)
  /\ schema = call[MainProc].txSchema

\* C3 as stated: after such a failure no ledger row for v is present.
C3_Original ==
  \A p \in Procs :
    (Done(p, "Migrate") /\ call[p].failed \in {"exec", "insert", "commit"}) =>
      /\ ledger = call[p].txLedger
      /\ schema = call[p].txSchema
      /\ call[p].failedVersion \notin Versions(ledger)

\* C4: when applying pending version v fails inside Migrate(), Migrate()
\* returns an error at once: the versions it committed earlier stay in the
\* ledger and no version above v is attempted; and in every state of a
\* Migrate() call no version committed by the call lies above a version that
\* was pending at its start and is still unapplied.
C4_MigrateStopsAtFailure ==
  \A p \in Procs :
    /\ (Done(p, "Migrate") /\ call[p].failed \in {"begin", "exec", "insert", "commit"}) =>
         LET c == call[p]
             v == c.failedVersion
         IN /\ ret[p] = "err"
            /\ c.attempted # <<>> /\ c.attempted[Len(c.attempted)] = v
            /\ \A k \in 1..Len(c.log) :
                 /\ c.log[k].Version <= v
                 /\ Row(c.log[k].Version, c.log[k].Name) \in ledger
            /\ \A k \in 1..Len(c.attempted) : c.attempted[k] <= v
            /\ \A k \in 1..Len(c.opened) : c.opened[k] <= v
            /\ ledger = c.ledger0
                 \cup {Row(c.log[k].Version, c.log[k].Name) : k \in 1..Len(c.log)}
    /\ call[p].op = "Migrate" =>
         \A k \in 1..Len(call[p].log) : \A j \in PendingAt(p) :
           migrations[p][j].Version < call[p].log[k].Version
             => migrations[p][j].Version \in Versions(ledger)

C4_Witness ==
  /\ Done(MainProc, "Migrate")
  /\ call[MainProc].failed \in {"exec", "insert", "commit"}
  /\ call[MainProc].log # <<>>
  /\ \E j \in PendingAt(MainProc) :
       migrations[MainProc][j].Version > call[MainProc].failedVersion

\* C5: after a Migrate() that returned nil, a second Migrate() on the same
\* loaded list opens no transaction, executes no up-statements, writes no
\* ledger row, and returns nil when its two database calls succeed.
C5_MigrateIdempotent ==
  \A p \in Procs :
    (Done(p, "Migrate") /\ prev[p].op = "Migrate" /\ prev[p].ret = "nil") =>
      /\ call[p].attempted = <<>>
      /\ call[p].opened = <<>>
      /\ call[p].log = <<>>
      /\ call[p].dbCalls <= 2
      /\ ledger = call[p].ledger0
      /\ schema = call[p].schema0
      /\ call[p].failed \in {"none", "create", "query"}
      /\ call[p].failed = "none" => ret[p] = "nil"

C5_Witness ==
  /\ Done(MainProc, "Migrate")
  /\ prev[MainProc].op = "Migrate" /\ prev[MainProc].ret = "nil"
  /\ Len(prev[MainProc].log) >= 2
  /\ ret[MainProc] = "nil"

\* the down-statements of m undo its up-statements on every schema
Inverts(m) ==
  \A s \in [Objs -> 0..1] : ExecSQL(m.DownSQL, ExecSQL(m.UpSQL, s)) = s

\* the calls of p before and at the present one: a Migrate() that committed
\* exactly one migration, then a Rollback(1), no database step failing
MigrateOneThenRollbackOne(p) ==
  /\ Done(p, "Rollback") /\ steps[p] = 1
  /\ call[p].failed \in {"none", "notfound"}
  /\ prev[p].op = "Migrate" /\ prev[p].ret = "nil"
  /\ Len(prev[p].log) = 1
  /\ Inverts(Def(p, prev[p].log[1].Version))

\* C6 (as amended): for a single pending migration v whose down-statements
\* invert its up-statements and whose version is above every version in the
\* ledger, Migrate() followed by Rollback(1), no database step failing,
\* leaves the schema and the ledger rows as they were before Migrate().
C6_RoundTrip ==
  \A p \in Procs :
    (/\ MigrateOneThenRollbackOne(p)
     /\ \A r \in prev[p].ledger0 : r.version < prev[p].log[1].Version) =>
      /\ ledger = prev[p].ledger0
      /\ schema = prev[p].schema0
      /\ ret[p] = "nil"

C6_Witness ==
  /\ MigrateOneThenRollbackOne(MainProc)
  /\ prev[MainProc].ledger0 # {}
  /\ \A r \in prev[MainProc].ledger0 : r.version < prev[MainProc].log[1].Version
  /\ call[MainProc].log # <<>>

\* C6 as stated: for any single migration whose down-statements invert its
\* up-statements, Migrate() followed by Rollback(1) restores schema and ledger.
C6_Original ==
  \A p \in Procs :
    (MigrateOneThenRollbackOne(p) /\ Len(migrations[p]) = 1) =>
      /\ ledger = prev[p].ledger0
      /\ schema = prev[p].schema0

\* C7: Rollback(steps) with steps <= 0 returns nil without any database
\* call: no query, no transaction, ledger and schema unchanged.
C7_RollbackNoSteps ==
  \A p \in Procs :
    (Done(p, "Rollback") /\ steps[p] <= 0) =>
      /\ ret[p] = "nil"
      /\ call[p].dbCalls = 0
      /\ call[p].attempted = <<>> /\ call[p].opened = <<>> /\ call[p].log = <<>>
      /\ call[p].failed = "none"
      /\ ledger = call[p].ledger0
      /\ schema = call[p].schema0

C7_Witness ==
  /\ Done(MainProc, "Rollback") /\ steps[MainProc] < 0
  /\ Cardinality(ledger) >= 2
  /\ LoadedVersions(migrations[MainProc]) \cap Versions(ledger) # {}

Min(a, b) == IF a <= b THEN a ELSE b

\* the versions in the ledger when the call of p started, highest first
Desc0(p) == SortDesc(Versions(call[p].ledger0))

RECURSIVE DownAll(_, _, _)
DownAll(p, vs, s) ==
  IF vs = <<>> THEN s ELSE DownAll(p, Tail(vs), ExecSQL(Def(p, Head(vs)).DownSQL, s))

\* C8: for steps > 0, every applied version loaded and no database step
\* failing, Rollback(steps) commits one down-transaction for each of the
\* k = min(steps, ledger size) highest versions, in descending order, and
\* the ledger afterwards is the ledger before minus those k versions.
C8_RollbackHighestFirst ==
  \A p \in Procs :
    (/\ Done(p, "Rollback") /\ steps[p] > 0 /\ call[p].failed = "none"
     /\ Versions(call[p].ledger0) \subseteq LoadedVersions(migrations[p])) =>
      LET c == call[p]
          k == Min(steps[p], Cardinality(c.ledger0))
      IN /\ ret[p] = "nil"
         /\ Len(c.log) = k /\ Len(c.opened) = k /\ Len(c.attempted) = k
         /\ \A j \in 1..k :
              /\ c.log[j].kind = "down"
              /\ c.log[j].Version = Desc0(p)[j]
              /\ c.opened[j] = Desc0(p)[j]
         /\ \A j \in 1..(k - 1) : c.log[j].Version > c.log[j + 1].Version
         /\ ledger = {r \in c.ledger0 : \A j \in 1..k : r.version # Desc0(p)[j]}
         /\ schema = DownAll(p, SubSeq(Desc0(p), 1, k), c.schema0)

C8_Witness ==
  /\ Done(MainProc, "Rollback") /\ steps[MainProc] = 2
  /\ call[MainProc].failed = "none"
  /\ Cardinality(call[MainProc].ledger0) = 3
  /\ Len(call[MainProc].log) = 2
  /\ Cardinality(ledger) = 1

\* C9: a Rollback that reaches an applied version w without a loaded
\* definition returns an error there: the versions above w were rolled back
\* by this call and stay so, w and every lower version keep their ledger
\* rows and are not attempted; no state of a Rollback attempts a version
\* below an applied version that has no loaded definition.
C9_RollbackStopsAtMissing ==
  \A p \in Procs :
    /\ (Done(p, "Rollback") /\ call[p].failed = "notfound") =>
         LET c == call[p]
             w == c.failedVersion
         IN /\ ret[p] = "err"
            /\ w \in Versions(c.ledger0) /\ w \notin LoadedVersions(migrations[p])
            /\ Len(c.log) < steps[p]
            /\ {c.log[j].Version : j \in 1..Len(c.log)}
                 = {u \in Versions(c.ledger0) : u > w}
            /\ ledger = {r \in c.ledger0 : r.version <= w}
            /\ \A j \in 1..Len(c.attempted) : c.attempted[j] > w
            /\ schema = DownAll(p, [j \in 1..Len(c.log) |-> c.log[j].Version], c.schema0)
    /\ call[p].op = "Rollback" =>
         \A u \in Versions(call[p].ledger0) \ LoadedVersions(migrations[p]) :
           \A j \in 1..Len(call[p].attempted) : call[p].attempted[j] > u
    /\ (Done(p, "Rollback") /\ steps[p] > 0 /\ call[p].failed = "none") =>
         \A j \in 1..Min(steps[p], Cardinality(call[p].ledger0)) :
           Desc0(p)[j] \in LoadedVersions(migrations[p])

C9_Witness ==
  /\ Done(MainProc, "Rollback") /\ call[MainProc].failed = "notfound"
  /\ call[MainProc].log # <<>>
  /\ \E r \in ledger : r.version < call[MainProc].failedVersion
  /\ \E r \in ledger : r.version \in LoadedVersions(migrations[MainProc])

\* C10: if executing the down-statements, deleting the ledger row or
\* committing fails for version v, Rollback() returns an error at once: v
\* keeps its ledger row and the schema is as before that transaction, no
\* lower version is attempted, and the versions rolled back earlier in the
\* call stay out of the ledger.
C10_RollbackAtomic ==
  \A p \in Procs :
    (Done(p, "Rollback") /\ call[p].failed \in {"exec", "delete", "commit"}) =>
      LET c == call[p]
          v == c.failedVersion
      IN /\ ret[p] = "err"
         /\ v \in Versions(ledger)
         /\ ledger = c.txLedger /\ schema = c.txSchema
         /\ ~tx[p].open
         /\ c.attempted[Len(c.attempted)] = v
         /\ \A j \in 1..Len(c.attempted) : c.attempted[j] >= v
         /\ \A j \in 1..Len(c.log) :
              c.log[j].Version > v /\ c.log[j].Version \notin Versions(ledger)
         /\ ledger = {r \in c.ledger0 :
                        \A j \in 1..Len(c.log) : r.version # c.log[j].Version}

C10_Witness ==
  /\ Done(MainProc, "Rollback")
  /\ call[MainProc].failed = "delete"
  /\ call[MainProc].log # <<>>
  /\ \E r \in ledger : r.version < call[MainProc].failedVersion

\* Migrate() reachable after any LoadMigrations(), failed or not: the
\* Migrator as its exported methods allow it to be used
LoadStep(p) ==
  \/ LoadMigrations(p)
  \/ Migrate(p)
  \/ createMigrationsTable(p)
  \/ getAppliedMigrations(p)
  \/ migrateLoop(p)
  \/ runBegin(p)
  \/ runExecUp(p)
  \/ runInsert(p)
  \/ runCommit(p)

\* any directory, the files that fail to parse in every way included
LoadInit == InitWith(Dirs)
LoadNext == LoadStep(MainProc) /\ UNCHANGED <<seedVars, cmd, parsed>>
LoadSpec == LoadInit /\ [][LoadNext]_vars

\* ------------------------------------------------------------ load claims
\* the step is a LoadMigrations() call of p
IsLoad(p) == calls'[p] = calls[p] + 1 /\ call'[p].op = "LoadMigrations"

\* C11: if a .sql file of the directory holds zero or more than one
\* "-- Down", LoadMigrations() returns an error and changes nothing in the
\* database: ledger table, ledger rows and schema are as before the call.
C11_MalformedDelimiter ==
  [][\A p \in Procs :
       (IsLoad(p) /\ \E id \in SqlFiles(dir) : DownCount(Catalog[id].body) # 1) =>
         /\ ret'[p] = "err"
         /\ UNCHANGED <<tableExists, ledger, schema>>
         /\ call'[p].dbCalls = 0 /\ ~tx'[p].open]_vars

C11_Witness ==
  /\ Done(MainProc, "LoadMigrations") /\ ret[MainProc] = "err"
  /\ \E id \in SqlFiles(dir) : DownCount(Catalog[id].body) = 2
  /\ \A id \in SqlFiles(dir) :
       DownCount(Catalog[id].body) # 0 /\ parseVersionFromFilename(Catalog[id].name).ok
  /\ ledger # {}

\* the .sql files of d that fail to parse
BadFiles(d) == {id \in SqlFiles(d) : ~parseMigrationFile(Catalog[id]).ok}

\* the definitions of the .sql files listed before the first one that fails
\* to parse, in listing order
DefsBeforeFirstBad(d) ==
  LET ids == SortAsc({id \in SqlFiles(d) : \A b \in BadFiles(d) : id < b})
  IN [k \in 1..Len(ids) |-> parseMigrationFile(Catalog[ids[k]]).migration]

C13_LoadedList ==
  [][\A p \in Procs :
       (IsLoad(p) /\ ret'[p] = "nil" /\ migrations[p] = <<>>) =>
         LET ms == migrations'[p]
         IN /\ Len(ms) = Cardinality(SqlFiles(dir))
            /\ \A id \in SqlFiles(dir) :
                 Cardinality({k \in 1..Len(ms) : ms[k].Name = Catalog[id].name}) = 1
            /\ \A k \in 1..Len(ms) :
                 \E id \in SqlFiles(dir) :
                   /\ ms[k].Name = Catalog[id].name
                   /\ ms[k].Version = parseVersionFromFilename(Catalog[id].name).val
            /\ \A k \in 1..(Len(ms) - 1) : ms[k].Version <= ms[k + 1].Version]_vars

C13_Witness ==
  /\ Done(MainProc, "LoadMigrations") /\ ret[MainProc] = "nil"
  /\ calls[MainProc] = 1
  /\ \E id \in dir : Ext(Catalog[id].name) # SqlExt
  /\ Len(migrations[MainProc]) = 2
  /\ migrations[MainProc][1].Version = migrations[MainProc][2].Version
  /\ migrations[MainProc][1].Name # migrations[MainProc][2].Name

\* ------------------------------------------------------------------- seeder
\* bytes of the file names, in byte order
Alphabet ==
  <<".", "0", "1", "2", "3", "4", "5", "6", "7", "8", "9", "_",
    "a", "b", "c", "d", "e", "f", "g", "h", "i", "j", "k", "l", "m",
    "n", "o", "p", "q", "r", "s", "t", "u", "v", "w", "x", "y", "z">>
Ord(c) == CHOOSE k \in 1..Len(Alphabet) : Alphabet[k] = c

\* Go's a < b on strings: byte-wise lexicographic
RECURSIVE NameLess(_, _)
NameLess(a, b) ==
  IF b = <<>> THEN FALSE
  ELSE IF a = <<>> THEN TRUE
  ELSE IF Head(a) # Head(b) THEN Ord(Head(a)) < Ord(Head(b))
  ELSE NameLess(Tail(a), Tail(b))

Semi == Tok(";", 0)

\* The files a seeds directory is drawn from, in filename order (the order
\* ReadDir lists them in).
SeedCatalog ==
  << File(<<"0", "1", "_", "u", "s", "e", "r", "s", ".", "s", "q", "l">>,
          <<Tok("add", 0), Semi, Space, Tok("add", 0), Semi>>),
     File(<<"0", "2", "_", "p", "o", "s", "t", "s", ".", "s", "q", "l">>,
          <<Tok("add", 1)>>),
     File(<<"0", "3", "_", "b", "l", "a", "n", "k", ".", "s", "q", "l">>,
          <<Space>>),
     File(<<"n", "o", "t", "e", "s", ".", "t", "x", "t">>,
          <<Tok("nop", 0)>>) >>

SeedFileIds == 1..Len(SeedCatalog)
SeedDirs == {d \in SUBSET SeedFileIds : Cardinality(d) <= MaxDirSize}
SeedSqlFiles(d) == {id \in d : Ext(SeedCatalog[id].name) = SqlExt}

\* a seed whose SQL is the file content with its outer white space cut
SeedOfTrimmed(f) == [Name |-> f.name, SQL |-> TrimSpace(f.body)]

\* &Seed{Name: entry.Name(), SQL: string(seedContent)}
SeedOf(f) == [Name |-> f.name, SQL |-> f.body]

SeedNoSort(ss) == ss

\* sort.Slice by Name (insertion sort for the lengths reached here)
RECURSIVE SeedSort(_)
SeedSort(ss) ==
  IF Len(ss) <= 1 THEN ss
  ELSE LET init == SeedSort(SubSeq(ss, 1, Len(ss) - 1))
           x == ss[Len(ss)]
           n == Cardinality({k \in 1..Len(init) : ~NameLess(x.Name, init[k].Name)})
       IN SubSeq(init, 1, n) \o <<x>> \o SubSeq(init, n + 1, Len(init))

\* the loop reading every .sql file and naming all that failed at the end
RECURSIVE SeedLoadLoopAggregate(_, _, _, _)
SeedLoadLoopAggregate(ss, ids, unreadable, h) ==
  IF ids = {} THEN [ok |-> h.named = <<>>, seeds |-> ss, read |-> h.read,
                    named |-> h.named]
  ELSE LET id == CHOOSE x \in ids : \A y \in ids : x <= y
           f == SeedCatalog[id]
       IN IF Ext(f.name) # SqlExt
            THEN SeedLoadLoopAggregate(ss, ids \ {id}, unreadable, h)
          ELSE IF id \in unreadable
            THEN SeedLoadLoopAggregate(ss, ids \ {id}, unreadable,
                   [read |-> Append(h.read, f.name), named |-> Append(h.named, f.name)])
          ELSE SeedLoadLoopAggregate(Append(ss, SeedOf(f)), ids \ {id}, unreadable,
                   [read |-> Append(h.read, f.name), named |-> h.named])

\* The loop of LoadSeeds over the directory listing ids, appending to ss: it
\* returns at the first .sql file ReadFile fails on.  h collects the files
\* whose read was attempted and the files the returned error names.
RECURSIVE SeedLoadLoop(_, _, _, _)
SeedLoadLoop(ss, ids, unreadable, h) ==
  IF ids = {} THEN [ok |-> TRUE, seeds |-> ss, read |-> h.read, named |-> h.named]
  ELSE LET id == CHOOSE x \in ids : \A y \in ids : x <= y
           f == SeedCatalog[id]
       IN IF Ext(f.name) # SqlExt
            THEN SeedLoadLoop(ss, ids \ {id}, unreadable, h)
          ELSE IF id \in unreadable
            THEN [ok |-> FALSE, seeds |-> ss, read |-> Append(h.read, f.name),
                  named |-> Append(h.named, f.name)]
          ELSE SeedLoadLoop(Append(ss, SeedOf(f)), ids \ {id}, unreadable,
                            [read |-> Append(h.read, f.name), named |-> h.named])

\* The whole of LoadSeeds(): readDir is the outcome of ReadDir, unreadable
\* the .sql files ReadFile fails on.
LoadSeeds(p) ==
  /\ StartCall(p, "LoadSeeds")
  /\ \E readDir \in BOOLEAN, unreadable \in SUBSET SeedSqlFiles(seedDir) :
       LET r == SeedLoadLoop(seeds[p], seedDir, unreadable,
                             [read |-> <<>>, named |-> <<>>])
       IN /\ readDir \/ unreadable = {}
          /\ seeds' = [seeds EXCEPT ![p] =
                 IF ~readDir THEN @
                 ELSE IF r.ok THEN SeedSort(r.seeds)
                 ELSE r.seeds]
          /\ ret' = [ret EXCEPT ![p] = IF readDir /\ r.ok THEN "nil" ELSE "err"]
          /\ seedCall' = [seedCall EXCEPT ![p] =
                 IF ~readDir THEN [NoSeedCall EXCEPT !.unreadable = unreadable]
                 ELSE [read |-> r.read, named |-> r.named, execs |-> <<>>,
                       unreadable |-> unreadable]]
  /\ call' = [call EXCEPT ![p] = NewCall("LoadSeeds")]
  /\ UNCHANGED <<migVars, schema, seedDir, pc, i, tx>>

Seed(p) ==
  /\ StartCall(p, "Seed")
  /\ call' = [call EXCEPT ![p] = NewCall("Seed")]
  /\ seedCall' = [seedCall EXCEPT ![p] = NoSeedCall]
  /\ i' = [i EXCEPT ![p] = 0]
  /\ pc' = [pc EXCEPT ![p] = "seedLoop"]
  /\ UNCHANGED <<migVars, schema, seedDir, seeds, tx, ret>>

\* one iteration of "for _, seed := range s.seeds"
seedLoop(p) ==
  /\ pc[p] = "seedLoop"
  /\ \/ /\ i[p] >= Len(seeds[p])
        /\ Return(p, "nil")
        /\ UNCHANGED call
     \/ /\ i[p] < Len(seeds[p])
        /\ pc' = [pc EXCEPT ![p] = "seed.Begin"]
        /\ call' = [call EXCEPT ![p].attempted = Append(@, seeds[p][i[p] + 1].Name)]
        /\ UNCHANGED <<tx, ret>>
  /\ UNCHANGED <<migVars, schema, seedVars, i, calls, prev>>

\* executeSeed(seed), one action per database call
seedBegin(p) ==
  /\ pc[p] = "seed.Begin"
  /\ \/ /\ tx' = [tx EXCEPT ![p] = [NoTx EXCEPT !.open = TRUE]]
        /\ pc' = [pc EXCEPT ![p] = "seed.Exec"]
        /\ call' = [call EXCEPT ![p].dbCalls = @ + 1,
                                ![p].opened = Append(@, seeds[p][i[p] + 1].Name),
                                ![p].txLedger = ledger, ![p].txSchema = schema]
        /\ UNCHANGED ret
     \/ Fail(p, "begin", i[p] + 1)
  /\ UNCHANGED <<migVars, schema, seedVars, i, calls, prev>>

\* what executeSeed returns when tx.Exec failed: "err := tx.Rollback()"
\* declares a new err, and that one is returned
ExecFailureReturn(rollbackOk) == IF rollbackOk THEN "nil" ELSE "err"

seedExec(p) ==
  /\ pc[p] = "seed.Exec"
  /\ LET seed == seeds[p][i[p] + 1]
         r == TxExec(tx[p], seed.SQL, schema)
     IN /\ seedCall' = [seedCall EXCEPT ![p].execs =
                          Append(@, [seed |-> seed.Name, sql |-> seed.SQL])]
        /\ \/ /\ tx' = [tx EXCEPT ![p] = r.tx]
              /\ schema' = r.schema
              /\ pc' = [pc EXCEPT ![p] = "seed.Commit"]
              /\ call' = [call EXCEPT ![p].dbCalls = @ + 1]
              /\ UNCHANGED <<ret, i>>
           \/ \E rollbackOk \in BOOLEAN :
                /\ call' = [call EXCEPT ![p].dbCalls = @ + 2, ![p].failed = "exec",
                                        ![p].failedVersion = i[p] + 1]
                /\ tx' = [tx EXCEPT ![p] = NoTx]
                /\ UNCHANGED schema
                /\ IF ExecFailureReturn(rollbackOk) = "nil"
                     THEN /\ i' = [i EXCEPT ![p] = @ + 1]
                          /\ pc' = [pc EXCEPT ![p] = "seedLoop"]
                          /\ UNCHANGED ret
                     ELSE /\ pc' = [pc EXCEPT ![p] = "idle"]
                          /\ ret' = [ret EXCEPT ![p] = "err"]
                          /\ UNCHANGED i
  /\ UNCHANGED <<migVars, seedDir, seeds, calls, prev>>

\* tx.Commit(); after a failed Commit the transaction is done and
\* tx.Rollback() returns sql.ErrTxDone, which executeSeed returns
seedCommit(p) ==
  /\ pc[p] = "seed.Commit"
  /\ LET seed == seeds[p][i[p] + 1]
         db == TxCommit(tx[p], ledger, schema)
     IN \/ /\ schema' = db.schema
           /\ tx' = [tx EXCEPT ![p] = NoTx]
           /\ i' = [i EXCEPT ![p] = @ + 1]
           /\ pc' = [pc EXCEPT ![p] = "seedLoop"]
           /\ call' = [call EXCEPT ![p].dbCalls = @ + 1,
                         ![p].log = Append(@, [kind |-> "seed", Version |-> 0,
                                               Name |-> seed.Name])]
           /\ UNCHANGED ret
        \/ /\ Fail(p, "commit", i[p] + 1)
           /\ UNCHANGED <<schema, i>>
  /\ UNCHANGED <<migVars, seedVars, calls, prev>>

SeedStep(p) ==
  \/ LoadSeeds(p)
  \/ Seed(p)
  \/ seedLoop(p)
  \/ seedBegin(p)
  \/ seedExec(p)
  \/ seedCommit(p)

\* seedCmd returns when LoadSeeds returns an error
SeedCommandRuns(p) == ~(call[p].op = "LoadSeeds" /\ ret[p] = "err")

\* a database without migrations, and a seeds directory
SeedInit ==
  /\ seedDir \in SeedDirs
  /\ seeds = [p \in Procs |-> <<>>]
  /\ seedCall = [p \in Procs |-> NoSeedCall]
  /\ cmd = [p \in Procs |-> NoCmd]
  /\ parsed = NoParse
  /\ dir = {}
  /\ tableExists = FALSE
  /\ ledger = {}
  /\ schema = [o \in Objs |-> 0]
  /\ lastTx = [v \in {m.Version : m \in ValidMigrations} |-> "none"]
  /\ migrations = [p \in Procs |-> <<>>]
  /\ pc = [p \in Procs |-> "idle"]
  /\ steps = [p \in Procs |-> 0]
  /\ appliedMigrations = [p \in Procs |-> <<>>]
  /\ i = [p \in Procs |-> 0]
  /\ tx = [p \in Procs |-> NoTx]
  /\ ret = [p \in Procs |-> "none"]
  /\ calls = [p \in Procs |-> 0]
  /\ call = [p \in Procs |-> NoCall]
  /\ prev = [p \in Procs |-> Summary(NoCall, "none")]

SeedNext ==
  SeedCommandRuns(MainProc) /\ SeedStep(MainProc) /\ UNCHANGED <<cmd, parsed>>
SeedSpec == SeedInit /\ [][SeedNext]_vars

\* ------------------------------------------------------------ seeder claims
SeedNames(ss) == [k \in 1..Len(ss) |-> ss[k].Name]

RECURSIVE SeedAll(_, _)
SeedAll(ss, s) == IF ss = <<>> THEN s ELSE SeedAll(Tail(ss), ExecSQL(Head(ss).SQL, s))

\* the content of the seed file with this name
BodyOf(name) ==
  SeedCatalog[CHOOSE id \in SeedFileIds : SeedCatalog[id].name = name].body

\* C14: if executing a seed's SQL fails, that seed's transaction is rolled
\* back and Seed() returns an error at once: no later seed is executed, the
\* earlier seeds stay committed, and Seed() never returns nil when the
\* transaction of some loaded seed did not commit.
C14_SeedAbortsOnFailure ==
  \A p \in Procs :
    Done(p, "Seed") =>
      /\ call[p].failed = "exec" =>
           /\ ret[p] = "err"
           /\ Len(call[p].attempted) = call[p].failedVersion
           /\ call[p].log = [k \in 1..(call[p].failedVersion - 1) |->
                               [kind |-> "seed", Version |-> 0,
                                Name |-> seeds[p][k].Name]]
      /\ ret[p] = "nil" => Len(call[p].log) = Len(seeds[p])

\* C15: LoadSeeds() keeps only .sql files, ordered ascending by filename
\* (one per .sql file on a fresh Seeder), and every Seed() call in which no
\* database step fails commits every loaded seed exactly once, in list
\* order, each in its own transaction, whatever ran before.
C15_SeedRunsAll ==
  \A p \in Procs :
    /\ (Done(p, "LoadSeeds") /\ ret[p] = "nil") =>
         /\ \A k \in 1..Len(seeds[p]) :
              \E id \in SeedSqlFiles(seedDir) :
                seeds[p][k] = [Name |-> SeedCatalog[id].name,
                               SQL |-> SeedCatalog[id].body]
         /\ \A k \in 1..(Len(seeds[p]) - 1) :
              ~NameLess(seeds[p][k + 1].Name, seeds[p][k].Name)
         /\ calls[p] = 1 =>
              /\ Len(seeds[p]) = Cardinality(SeedSqlFiles(seedDir))
              /\ \A k \in 1..(Len(seeds[p]) - 1) :
                   NameLess(seeds[p][k].Name, seeds[p][k + 1].Name)
    /\ (Done(p, "Seed") /\ call[p].failed = "none") =>
         /\ ret[p] = "nil"
         /\ call[p].log = [k \in 1..Len(seeds[p]) |->
                             [kind |-> "seed", Version |-> 0, Name |-> seeds[p][k].Name]]
         /\ call[p].opened = SeedNames(seeds[p])
         /\ call[p].attempted = SeedNames(seeds[p])
         /\ schema = SeedAll(seeds[p], call[p].schema0)

C15_Witness ==
  /\ Done(MainProc, "Seed") /\ call[MainProc].failed = "none"
  /\ prev[MainProc].op = "Seed" /\ prev[MainProc].ret = "nil"
  /\ Len(prev[MainProc].log) = 2
  /\ Len(call[MainProc].log) = 2
  /\ \E id \in seedDir : Ext(SeedCatalog[id].name) # SqlExt
  /\ schema[0] = 4

\* C16 (as amended): for each seed Seed() issues exactly one database
\* execution, carrying the whole body of the seed file unsplit, inside that
\* seed's single transaction; a call without a failure issues one execution
\* per loaded seed.
C16_OneExecPerSeed ==
  \A p \in Procs :
    call[p].op = "Seed" =>
      LET execs == seedCall[p].execs
          opened == call[p].opened
      IN /\ Len(execs) <= Len(opened) /\ Len(opened) <= Len(execs) + 1
         /\ \A k \in 1..Len(execs) :
              execs[k] = [seed |-> opened[k], sql |-> BodyOf(opened[k])]
         /\ (Done(p, "Seed") /\ call[p].failed = "none") => Len(execs) = Len(seeds[p])

C16_Witness ==
  /\ Done(MainProc, "Seed") /\ call[MainProc].failed = "none"
  /\ Len(seeds[MainProc]) = 3
  /\ Len(seedCall[MainProc].execs) = 3
  /\ seedCall[MainProc].execs[1].sql = <<Tok("add", 0), Semi, Space, Tok("add", 0), Semi>>
  /\ seedCall[MainProc].execs[3].sql = <<Space>>

NonBlank(s) == s # <<>>

\* the statements of a body: split on ';', trimmed, blank ones dropped
Statements(sql) ==
  LET parts == Split(sql, Semi)
  IN SelectSeq([k \in 1..Len(parts) |-> TrimSpace(parts[k])], NonBlank)

RECURSIVE StatementExecs(_)
StatementExecs(ss) ==
  IF ss = <<>> THEN <<>>
  ELSE LET st == Statements(Head(ss).SQL)
       IN [k \in 1..Len(st) |-> [seed |-> Head(ss).Name, sql |-> st[k]]]
            \o StatementExecs(Tail(ss))

\* C16 as stated: one database execution per non-blank ';'-separated
\* statement of each seed, in body order.
C16_Original ==
  \A p \in Procs :
    (Done(p, "Seed") /\ call[p].failed = "none") =>
      seedCall[p].execs = StatementExecs(seeds[p])

\* the .sql files of the seeds directory up to the first unreadable one
ReadUpToFirstUnreadable(d, unreadable) ==
  LET ids == SortAsc({id \in SeedSqlFiles(d) : \A u \in unreadable : id <= u})
  IN [k \in 1..Len(ids) |-> SeedCatalog[ids[k]].name]

\* C17 (as amended): when reading a seed file fails, LoadSeeds() stops at
\* the first .sql file that fails to read and returns that read's error,
\* which names that one file; the .sql files after it are not attempted.
C17_LoadSeedsFailsFast ==
  \A p \in Procs :
    (Done(p, "LoadSeeds") /\ seedCall[p].unreadable # {}) =>
      LET u == seedCall[p].unreadable
          first == CHOOSE x \in u : \A y \in u : x <= y
      IN /\ ret[p] = "err"
         /\ seedCall[p].named = <<SeedCatalog[first].name>>
         /\ seedCall[p].read = ReadUpToFirstUnreadable(seedDir, u)
         /\ \A id \in SeedSqlFiles(seedDir) :
              id > first =>
                \A k \in 1..Len(seedCall[p].read) :
                  seedCall[p].read[k] # SeedCatalog[id].name

C17_Witness ==
  /\ Done(MainProc, "LoadSeeds") /\ ret[MainProc] = "err"
  /\ Cardinality(seedCall[MainProc].unreadable) = 2
  /\ Len(seedCall[MainProc].read) = 2
  /\ Len(seedCall[MainProc].named) = 1
  /\ Cardinality(SeedSqlFiles(seedDir)) = 3

\* C17 as stated: LoadSeeds() attempts every .sql file and its error names
\* every file that failed to read.
C17_Original ==
  \A p \in Procs :
    (Done(p, "LoadSeeds") /\ seedCall[p].unreadable # {}) =>
      LET u == SortAsc(seedCall[p].unreadable)
          all == SortAsc(SeedSqlFiles(seedDir))
      IN /\ ret[p] = "err"
         /\ seedCall[p].read = [k \in 1..Len(all) |-> SeedCatalog[all[k]].name]
         /\ seedCall[p].named = [k \in 1..Len(u) |-> SeedCatalog[u[k]].name]

\* ----------------------------------------------------------------- commands
Commands == {"migrate", "rollback", "seed"}

\* a Run that hands the engine's error on, as a cobra RunE would
RunEResult(engineRet) == engineRet

\* What RootCmd.Execute() gets from a command's Run: Run is a func without
\* an error result, so nothing, whatever the engine call returned.
RunResult(engineRet) == "nil"

\* Execute(): os.Exit(1) if RootCmd.Execute() returned an error, else main
\* returns and the status is 0
ExitStatus(executeErr) == IF executeErr = "nil" THEN 0 ELSE 1

\* The process starts: cobra checks the arguments (rollback takes at most
\* one) and calls the command's Run, which parses steps (rollback) and opens
\* the database connection; Run logs and returns when one of them fails.
Execute(p, name, argsOk, atoiOk, connOk, n) ==
  /\ cmd[p].name = "none" /\ pc[p] = "idle" /\ calls[p] = 0
  /\ name = "rollback" \/ (argsOk /\ atoiOk /\ n = 1)
  /\ cmd' = [cmd EXCEPT ![p] =
       IF ~argsOk
         THEN [NoCmd EXCEPT !.name = name, !.exited = TRUE, !.status = ExitStatus("err")]
       ELSE IF ~atoiOk \/ ~connOk
         THEN [NoCmd EXCEPT !.name = name, !.exited = TRUE,
                            !.status = ExitStatus(RunResult("nil"))]
       ELSE [NoCmd EXCEPT !.name = name, !.steps = n, !.running = TRUE]]
  /\ UNCHANGED <<migVars, schema, seedVars, pc, i, tx, ret, calls, call, prev>>

\* the engine call Run makes next
RunLoads(p) == cmd[p].running /\ calls[p] = 0
RunActs(p, load) == cmd[p].running /\ call[p].op = load /\ ret[p] = "nil"

\* Run returns after a failed load or after its engine call: it has logged
\* the error if there was one; RootCmd.Execute() returns and the process exits
CmdReturn(p) ==
  /\ cmd[p].running /\ pc[p] = "idle"
  /\ \/ call[p].op \in {"LoadMigrations", "LoadSeeds"} /\ ret[p] = "err"
     \/ call[p].op \in {"Migrate", "Rollback", "Seed"}
  /\ cmd' = [cmd EXCEPT ![p].running = FALSE, ![p].exited = TRUE,
                        ![p].logged = (ret[p] = "err"),
                        ![p].reported =
                          IF call[p].op = "Rollback" /\ ret[p] = "nil"
                            THEN cmd[p].steps ELSE 0,
                        ![p].status = ExitStatus(RunResult(ret[p]))]
  /\ UNCHANGED <<migVars, schema, seedVars, pc, i, tx, ret, calls, call, prev>>

CmdStep(p) ==
  \/ \E name \in Commands, argsOk, atoiOk, connOk \in BOOLEAN, n \in StepsArgs :
       Execute(p, name, argsOk, atoiOk, connOk, n)
  \/ /\ cmd[p].name \in {"migrate", "rollback"} /\ RunLoads(p)
     /\ LoadMigrations(p) /\ UNCHANGED <<seedVars, cmd>>
  \/ /\ cmd[p].name = "migrate" /\ RunActs(p, "LoadMigrations")
     /\ Migrate(p) /\ UNCHANGED <<seedVars, cmd>>
  \/ /\ cmd[p].name = "rollback" /\ RunActs(p, "LoadMigrations")
     /\ Rollback(p, cmd[p].steps) /\ UNCHANGED <<seedVars, cmd>>
  \/ /\ \/ createMigrationsTable(p) \/ getAppliedMigrations(p) \/ migrateLoop(p)
        \/ runBegin(p) \/ runExecUp(p) \/ runInsert(p) \/ runCommit(p)
        \/ rollbackLoop(p) \/ rbBegin(p) \/ rbExecDown(p) \/ rbDelete(p) \/ rbCommit(p)
     /\ UNCHANGED <<seedVars, cmd>>
  \/ /\ cmd[p].name = "seed" /\ RunLoads(p)
     /\ LoadSeeds(p) /\ UNCHANGED cmd
  \/ /\ cmd[p].name = "seed" /\ RunActs(p, "LoadSeeds")
     /\ Seed(p) /\ UNCHANGED cmd
  \/ /\ \/ seedLoop(p) \/ seedBegin(p) \/ seedExec(p) \/ seedCommit(p)
     /\ UNCHANGED cmd
  \/ CmdReturn(p)

\* a database with its migrations directory, or one with a seeds directory
CmdInit == Init \/ SeedInit
CmdNext == CmdStep(MainProc) /\ UNCHANGED parsed
CmdSpec == CmdInit /\ [][CmdNext]_vars

\* the command of p has exited after an engine call returned r
EngineReturned(p, r) ==
  /\ cmd[p].exited /\ calls[p] > 0 /\ pc[p] = "idle" /\ ret[p] = r

\* C18 (as amended): when LoadMigrations(), Migrate(), Rollback(),
\* LoadSeeds() or Seed() returns an error, the command logs the error and
\* returns, and the process exits with status 0, as it does when the engine
\* call returned nil; the status is non-zero only when cobra rejects the
\* command line before Run is called.
C18_ExitStatus ==
  \A p \in Procs :
    /\ EngineReturned(p, "err") => cmd[p].logged /\ cmd[p].status = 0
    /\ EngineReturned(p, "nil") => ~cmd[p].logged /\ cmd[p].status = 0
    /\ (cmd[p].exited /\ cmd[p].status # 0) => calls[p] = 0 /\ cmd[p].name = "rollback"
    /\ (cmd[p].exited /\ call[p].op \in {"LoadMigrations", "LoadSeeds"}) => ret[p] = "err"

C18_Witness ==
  /\ EngineReturned(MainProc, "err")
  /\ cmd[MainProc].name = "migrate" /\ call[MainProc].op = "Migrate"
  /\ call[MainProc].failed = "commit" /\ call[MainProc].log # <<>>
  /\ cmd[MainProc].status = 0 /\ cmd[MainProc].logged

\* C18 as stated: an engine error makes the process exit non-zero; it exits
\* zero only when the engine call returned nil.
C18_Original ==
  \A p \in Procs :
    /\ EngineReturned(p, "err") => cmd[p].logged /\ cmd[p].status # 0
    /\ (cmd[p].exited /\ calls[p] > 0 /\ cmd[p].status = 0) => ret[p] = "nil"

\* ------------------------------------------------------------- resumption
LogVersions(log) == [k \in 1..Len(log) |-> log[k].Version]

\* the call of p before its present Migrate() was a Migrate() that failed
\* inside the transaction of version v, which is still unapplied
FailedAt(p, v) ==
  /\ prev[p].op = "Migrate" /\ prev[p].ret = "err"
  /\ prev[p].failed \in {"begin", "exec", "insert", "commit"}
  /\ prev[p].failedVersion = v
  /\ v \notin Versions(call[p].ledger0)

\* C19: if Migrate() failed at pending version v, a later Migrate() on the
\* same ledger and the same loaded versions in which nothing fails applies v
\* and every pending version above v in ascending order, re-applies none of
\* the versions the failed run committed, and ends with every loaded version
\* in the ledger.
C19_Resumption ==
  \A p \in Procs : \A v \in AllVersions :
    (Done(p, "Migrate") /\ call[p].failed = "none" /\ FailedAt(p, v)) =>
      LET c == call[p]
          before == LogVersions(prev[p].log)
          pending == LoadedVersions(migrations[p]) \ Versions(c.ledger0)
      IN /\ ret[p] = "nil"
         /\ c.ledger0 = prev[p].ledger0
              \cup {Row(prev[p].log[k].Version, prev[p].log[k].Name) :
                      k \in 1..Len(prev[p].log)}
         /\ LogVersions(c.log) = SortAsc(pending)
         /\ c.log # <<>> /\ c.log[1].Version = v
         /\ \A k \in 1..Len(c.log) : c.log[k].Version >= v
         /\ \A k \in 1..Len(c.log) : \A j \in 1..Len(before) :
              c.log[k].Version # before[j]
         /\ \A j \in 1..Len(before) : before[j] \in Versions(ledger)
         /\ LoadedVersions(migrations[p]) \subseteq Versions(ledger)
         /\ schema = UpAll(p, before \o LogVersions(c.log), prev[p].schema0)

C19_Witness ==
  /\ Done(MainProc, "Migrate") /\ call[MainProc].failed = "none"
  /\ prev[MainProc].failed = "commit"
  /\ FailedAt(MainProc, prev[MainProc].failedVersion)
  /\ prev[MainProc].log # <<>>
  /\ Len(call[MainProc].log) = 2

\* ------------------------------------------------------ concurrent migrate
\* one "db migrate" invocation: LoadMigrations(), then Migrate()
MigrateCommand(p) ==
  \/ calls[p] = 0 /\ LoadMigrations(p)
  \/ call[p].op = "LoadMigrations" /\ ret[p] = "nil" /\ Migrate(p)
  \/ createMigrationsTable(p)
  \/ getAppliedMigrations(p)
  \/ migrateLoop(p)
  \/ runBegin(p)
  \/ runExecUp(p)
  \/ runInsert(p)
  \/ runCommit(p)

\* two invocations against the same database and the same directory, their
\* database calls interleaved in any order
ConcNext ==
  \E p \in Procs : MigrateCommand(p) /\ UNCHANGED <<seedVars, cmd, parsed>>
ConcSpec == Init /\ [][ConcNext]_vars

\* the definitions whose ledger rows are committed
AppliedDefs == {m \in ValidMigrations : Row(m.Version, m.Name) \in ledger}

\* both invocations read version n as unapplied and opened a transaction for
\* it; p committed it and the insert of q was rejected
BothApplied(p, q, n) ==
  /\ p # q
  /\ Done(p, "Migrate") /\ Done(q, "Migrate")
  /\ n \notin Versions(call[p].ledger0) /\ n \notin Versions(call[q].ledger0)
  /\ \E k \in 1..Len(call[p].opened) : call[p].opened[k] = n
  /\ \E k \in 1..Len(call[q].opened) : call[q].opened[k] = n
  /\ \E k \in 1..Len(call[p].log) : call[p].log[k].Version = n
  /\ call[q].failed = "insert" /\ call[q].failedVersion = n

\* C20 (as amended): two concurrent Migrate() invocations on the same ledger
\* and migration set can both read version N as unapplied and both start
\* applying it; the ledger never holds two rows for N; at most one of them
\* commits N, the other cannot get past its insert once N's row is
\* committed and is rolled back whole, so the up-statements of N are never
\* committed twice.
C20_ConcurrentMigrate ==
  /\ [](/\ \A r1, r2 \in ledger : r1.version = r2.version => r1 = r2
        /\ ledger \subseteq {Row(m.Version, m.Name) : m \in ValidMigrations}
        /\ schema = ApplyAll(AppliedDefs, [o \in Objs |-> 0])
        /\ \A q \in Procs :
             pc[q] = "run.Commit" =>
               \A r \in tx[q].ins : r.version \notin Versions(ledger))
  /\ [][\A q \in Procs :
          (/\ pc[q] = "run.Insert"
           /\ migrations[q][i[q] + 1].Version \in Versions(ledger)
           /\ pc'[q] # pc[q]) =>
            /\ pc'[q] = "idle" /\ ret'[q] = "err"
            /\ call'[q].failed = "insert"
            /\ ~tx'[q].open
            /\ UNCHANGED <<ledger, schema>>]_vars

C20_Witness ==
  \E p, q \in Procs : \E n \in AllVersions :
    /\ BothApplied(p, q, n)
    /\ Len(call[q].log) >= 1
    /\ schema[n] = 1

\* C20 as stated: when the second invocation's insert of N is rejected, the
\* up-statements of N it executed, not being idempotent, end up committed a
\* second time.
C20_Original ==
  \A p, q \in Procs : \A n \in AllVersions :
    BothApplied(p, q, n) => schema # ApplyAll(AppliedDefs, [o \in Objs |-> 0])

\* ------------------------------------------------- successive invocations
\* The migrations directory gains a file between or during invocations; the
\* next ioutil.ReadDir lists the directory as it then is.
AddFile ==
  /\ \E id \in FileIds \ dir :
       /\ (dir \cup {id}) \in CoreDirs
       /\ dir' = dir \cup {id}
  /\ UNCHANGED <<dbVars, ctlVars, migrations, calls, call, prev, lastTx>>

\* the command of p has returned: its load failed or its engine call is over
Finished(p) ==
  /\ pc[p] = "idle"
  /\ \/ call[p].op = "LoadMigrations" /\ ret[p] = "err"
     \/ call[p].op \in {"Migrate", "Rollback"}

\* one "db migrate" or "db rollback [steps]" invocation on a new Migrator:
\* LoadMigrations(), then Migrate() or Rollback(steps)
Invocation(p) ==
  \/ calls[p] = 0 /\ LoadMigrations(p)
  \/ /\ calls[p] = 1 /\ call[p].op = "LoadMigrations" /\ ret[p] = "nil"
     /\ \/ Migrate(p)
        \/ \E n \in StepsArgs : Rollback(p, n)
  \/ createMigrationsTable(p)
  \/ getAppliedMigrations(p)
  \/ migrateLoop(p)
  \/ runBegin(p)
  \/ runExecUp(p)
  \/ runInsert(p)
  \/ runCommit(p)
  \/ rollbackLoop(p)
  \/ rbBegin(p)
  \/ rbExecDown(p)
  \/ rbDelete(p)
  \/ rbCommit(p)

\* a new database: no ledger table, nothing applied
SeqInit == Init /\ ~tableExists /\ ledger = {}

\* the invocations run one after the other, the second once the first is over
SeqNext ==
  /\ \/ AddFile
     \/ Invocation(1)
     \/ Finished(1) /\ Invocation(2)
  /\ UNCHANGED <<seedVars, cmd, parsed>>
SeqSpec == SeqInit /\ [][SeqNext]_vars

\* the transactions committed so far, in commit order
History == call[1].log \o call[2].log

\* the versions of the present ledger rows in the order they were committed
RECURSIVE CommitOrder(_)
CommitOrder(h) ==
  IF h = <<>> THEN <<>>
  ELSE LET init == CommitOrder(SubSeq(h, 1, Len(h) - 1))
           e == h[Len(h)]
       IN IF e.kind = "up" THEN Append(init, e.Version)
          ELSE SelectSeq(init, LAMBDA v : v # e.Version)

\* every Migrate() so far found its unapplied loaded versions above every
\* version in the ledger
LoadedAboveLedger ==
  \A p \in Procs :
    call[p].op = "Migrate" =>
      \A v \in LoadedVersions(migrations[p]) \ Versions(call[p].ledger0) :
        \A w \in Versions(call[p].ledger0) : w < v

\* C21 (as amended): over a sequence of command invocations, each loading
\* the migration source as it then is, in which every loaded version absent
\* from the ledger when a Migrate() starts is above every version in the
\* ledger, no version is committed while a higher one is in the ledger, and
\* the descending-version order used by Rollback is the reverse of the order
\* in which the ledger rows were committed.
C21_CommitOrder ==
  LoadedAboveLedger => CommitOrder(History) = SortAsc(Versions(ledger))

C21_Witness ==
  /\ Done(2, "Migrate") /\ call[2].failed = "none"
  /\ call[1].op = "Migrate" /\ call[1].log # <<>>
  /\ Len(migrations[2]) > Len(migrations[1])
  /\ call[2].log # <<>>
  /\ LoadedAboveLedger
  /\ Cardinality(ledger) >= 2

\* C21 as stated: whatever files the source gained between invocations, the
\* ledger rows were committed in ascending version order.
C21_Original ==
  CommitOrder(History) = SortAsc(Versions(ledger))

\* ------------------------------------------------------ duplicate versions
\* positions in the sorted list ms of the definitions with version v
Sharing(ms, v) == {k \in 1..Len(ms) : ms[k].Version = v}
\* the definition with version v that comes first, and last, in ms
FirstOf(ms, v) == ms[CHOOSE k \in Sharing(ms, v) : \A j \in Sharing(ms, v) : k <= j]
LastOf(ms, v) == ms[CHOOSE k \in Sharing(ms, v) : \A j \in Sharing(ms, v) : k >= j]

\* the step of p is the successful tx.Commit() of runMigration, of rollbackMigration
CommitsUp(p) == pc[p] = "run.Commit" /\ pc'[p] = "migrateLoop"
CommitsDown(p) == pc[p] = "rb.Commit" /\ pc'[p] = "rollbackLoop"

\* C22 (as amended): when loaded definitions share a version v, the
\* behaviour is first-sorted-wins: the definition that comes first in the
\* sorted list is the one whose up-statements Migrate() commits for v, with
\* its name in the ledger row, and whose down-statements Rollback() commits
\* for v; the up-statements of a later one are never committed.
C22_FirstSortedWins ==
  [][\A p \in Procs :
       /\ CommitsUp(p) =>
            \E v \in LoadedVersions(migrations[p]) \ Versions(ledger) :
              LET m == FirstOf(migrations[p], v)
              IN /\ ledger' = ledger \cup {Row(v, m.Name)}
                 /\ schema' = ExecSQL(m.UpSQL, schema)
       /\ CommitsDown(p) =>
            LET v == appliedMigrations[p][i[p] + 1]
                m == FirstOf(migrations[p], v)
            IN /\ Versions(ledger') = Versions(ledger) \ {v}
               /\ schema' = ExecSQL(m.DownSQL, schema)]_vars

C22_Witness ==
  /\ Done(1, "Migrate") /\ call[1].failed = "insert" /\ call[1].failedVersion = 3
  /\ Cardinality(Sharing(migrations[1], 3)) = 2
  /\ \E k \in 1..Len(call[1].log) :
       call[1].log[k] = [kind |-> "up", Version |-> 3,
                         Name |-> FirstOf(migrations[1], 3).Name]
  /\ Done(2, "Rollback") /\ ret[2] = "nil"
  /\ Cardinality(Sharing(migrations[2], 3)) = 2
  /\ \E k \in 1..Len(call[2].log) :
       call[2].log[k] = [kind |-> "down", Version |-> 3,
                         Name |-> FirstOf(migrations[2], 3).Name]
  /\ FirstOf(migrations[2], 3).Name # LastOf(migrations[2], 3).Name

\* C22 as stated: last-sorted-wins, the definition that comes later in the
\* sorted list is the one committed by Migrate() and run by Rollback().
C22_Original ==
  [][\A p \in Procs :
       /\ CommitsUp(p) =>
            \A v \in Versions(ledger') \ Versions(ledger) :
              Cardinality(Sharing(migrations[p], v)) >= 2 =>
                LET m == LastOf(migrations[p], v)
                IN /\ Row(v, m.Name) \in ledger'
                   /\ schema' = ExecSQL(m.UpSQL, schema)
       /\ CommitsDown(p) =>
            LET v == appliedMigrations[p][i[p] + 1]
            IN Cardinality(Sharing(migrations[p], v)) >= 2 =>
                 schema' = ExecSQL(LastOf(migrations[p], v).DownSQL, schema)]_vars

\* ------------------------------------------------------ versions of files
\* File names: up to MaxPrefixLen characters, or a number next to the int64
\* range, followed by an ending with or without an underscore.
FileNames ==
  LET PrefixChars == {"0", "5", "-", "+", "x", "_"}
      ShortPrefixes == UNION {[1..n -> PrefixChars] : n \in 0..MaxPrefixLen}
      AboveMaxInt64 ==
        [k \in 1..19 |-> Digits[[MaxInt64Digits EXCEPT ![19] = 8][k] + 1]]
      BelowMinInt64 ==
        <<"-">> \o [k \in 1..19 |-> Digits[[MaxInt64Digits EXCEPT ![19] = 9][k] + 1]]
      Endings == { <<"_", "a", ".", "s", "q", "l">>,
                   <<"_", "a", "_", "b", ".", "s", "q", "l">>,
                   <<".", "s", "q", "l">> }
  IN {pre \o e : pre \in ShortPrefixes \cup {AboveMaxInt64, BelowMinInt64},
                 e \in Endings}

\* the content of a well-formed migration file
GoodBody == <<Tok("add", 1), Space, DownMark, Space, Tok("drop", 1)>>

\* One pass of the loop of LoadMigrations over the .sql file parsed.name: the
\* definition is appended, or the error of parseMigrationFile is returned.
LoadFile(p) ==
  /\ ~parsed.done
  /\ LET r == parseMigrationFile(File(parsed.name, GoodBody))
     IN /\ migrations' = [migrations EXCEPT ![p] =
                            IF r.ok THEN Append(@, r.migration) ELSE @]
        /\ ret' = [ret EXCEPT ![p] = IF r.ok THEN "nil" ELSE "err"]
  /\ parsed' = [parsed EXCEPT !.done = TRUE]
  /\ UNCHANGED <<dir, dbVars, pc, steps, appliedMigrations, i, tx, calls, call,
                 prev, lastTx, seedVars, cmd>>

\* a new Migrator and a directory holding one .sql file with any of the names
ParseInit ==
  /\ parsed \in {[name |-> n, done |-> FALSE] : n \in FileNames}
  /\ seedDir = {}
  /\ seeds = [p \in Procs |-> <<>>]
  /\ seedCall = [p \in Procs |-> NoSeedCall]
  /\ cmd = [p \in Procs |-> NoCmd]
  /\ dir = {}
  /\ tableExists = FALSE
  /\ ledger = {}
  /\ schema = [o \in Objs |-> 0]
  /\ lastTx = [v \in {m.Version : m \in ValidMigrations} |-> "none"]
  /\ migrations = [p \in Procs |-> <<>>]
  /\ pc = [p \in Procs |-> "idle"]
  /\ steps = [p \in Procs |-> 0]
  /\ appliedMigrations = [p \in Procs |-> <<>>]
  /\ i = [p \in Procs |-> 0]
  /\ tx = [p \in Procs |-> NoTx]
  /\ ret = [p \in Procs |-> "none"]
  /\ calls = [p \in Procs |-> 0]
  /\ call = [p \in Procs |-> NoCall]
  /\ prev = [p \in Procs |-> Summary(NoCall, "none")]

ParseNext == LoadFile(MainProc)
ParseSpec == ParseInit /\ [][ParseNext]_vars

\* the text of a file name before its first underscore (all of it without one)
HasUnderscore(name) == \E k \in 1..Len(name) : name[k] = "_"
BeforeUnderscore(name) ==
  IF ~HasUnderscore(name) THEN name
  ELSE LET k == CHOOSE x \in 1..Len(name) :
                  name[x] = "_" /\ \A y \in 1..(x - 1) : name[y] # "_"
       IN SubSeq(name, 1, k - 1)

\* t without its sign, if it has one
Unsigned(t) == IF t # <<>> /\ t[1] \in {"+", "-"} THEN Tail(t) ELSE t
\* t is a base-10 integer: an optional sign, then one or more digits
IsInteger(t) ==
  Unsigned(t) # <<>> /\ \A k \in 1..Len(Unsigned(t)) : IsDigit(Unsigned(t)[k])
\* the number a digit string denotes, read from the left
RECURSIVE Horner(_, _)
Horner(acc, s) == IF s = <<>> THEN acc ELSE Horner(acc * 10 + DigitVal(Head(s)), Tail(s))
\* the magnitude of the integer t is at most 2^63 - 1, or 2^63 for a negative t
FitsInt64(t) ==
  LET ds == StripZeros([k \in 1..Len(Unsigned(t)) |-> DigitVal(Unsigned(t)[k])])
  IN \/ Len(ds) < 19
     \/ Len(ds) = 19 /\ DigitsLeq(ds, MaxInt64Digits)
     \/ t[1] = "-" /\ ds = [MaxInt64Digits EXCEPT ![19] = 8]

\* C23 (as amended): the loader yields a definition for a file name exactly
\* when the name has an underscore and the text before the first underscore
\* is a base-10 integer (an optional sign, then digits) that fits in a signed
\* 64-bit integer; the version is that integer, so zero, negative,
\* plus-signed and zero-padded versions are accepted; every other name is
\* rejected with an error and yields no definition.
C23_VersionOfFilename ==
  parsed.done =>
    LET t == BeforeUnderscore(parsed.name)
        accepted == HasUnderscore(parsed.name) /\ IsInteger(t) /\ FitsInt64(t)
        ms == migrations[MainProc]
    IN /\ accepted <=> ret[MainProc] = "nil"
       /\ accepted =>
            /\ Len(ms) = 1 /\ ms[1].Name = parsed.name
            /\ ms[1].Version = IF t[1] = "-" THEN 0 - Horner(0, Unsigned(t))
                               ELSE Horner(0, Unsigned(t))
       /\ ~accepted => ms = <<>> /\ ret[MainProc] = "err"

C23_Witness ==
  /\ parsed.done /\ ret[MainProc] = "nil"
  /\ parsed.name = <<"-", "0", "5", "_", "a", "_", "b", ".", "s", "q", "l">>
  /\ migrations[MainProc][1].Version = 0 - 5

\* C23 as stated: every definition has a positive version equal to the digit
\* run before the first underscore; a zero or signed prefix is rejected.
C23_Original ==
  parsed.done =>
    LET t == BeforeUnderscore(parsed.name)
        ms == migrations[MainProc]
    IN /\ ret[MainProc] = "nil" =>
            /\ ms[1].Version > 0
            /\ t # <<>> /\ \A k \in 1..Len(t) : IsDigit(t[k])
            /\ ms[1].Version = Horner(0, t)
       /\ (~HasUnderscore(parsed.name) \/ ~IsInteger(t) \/ ~FitsInt64(t)
             \/ t[1] \in {"+", "-"} \/ Horner(0, Unsigned(t)) = 0) =>
            ms = <<>> /\ ret[MainProc] = "err"

\* ---------------------------------------------------------------- log lines
\* the step adds one success line to the log of p's call
Logs(p) ==
  /\ calls'[p] = calls[p]
  /\ Len(call'[p].log) = Len(call[p].log) + 1
  /\ SubSeq(call'[p].log, 1, Len(call[p].log)) = call[p].log

\* C24: success log lines track commits one-to-one.  A line is added only in
\* the step in which the transaction of the running call commits: "Applied
\* migration" names the definition whose row and up-statements take effect
\* in that step, "Rolled back migration" the one whose row goes and whose
\* down-statements take effect, "Executed seed" the seed whose SQL takes
\* effect; every step that changes the database adds exactly one line; a
\* step that fails or skips an item adds none.
C24_LogTracksCommits ==
  [][\A p \in Procs :
       /\ calls'[p] = calls[p] => (call'[p].log = call[p].log \/ Logs(p))
       /\ calls'[p] # calls[p] => call'[p].log = <<>>
       /\ Logs(p) =>
            LET e == call'[p].log[Len(call'[p].log)]
            IN /\ tx[p].open /\ ~tx'[p].open
               /\ ~(pc'[p] = "idle" /\ ret'[p] = "err")
               /\ schema' = ExecSQL(tx[p].sql, schema)
               /\ e.kind = "up" =>
                    /\ e.Version \notin Versions(ledger)
                    /\ ledger' = ledger \cup {Row(e.Version, e.Name)}
                    /\ \E k \in 1..Len(migrations[p]) :
                         /\ migrations[p][k].Name = e.Name
                         /\ migrations[p][k].Version = e.Version
                         /\ migrations[p][k].UpSQL = tx[p].sql
               /\ e.kind = "down" =>
                    /\ ledger' \subseteq ledger
                    /\ Versions(ledger') = Versions(ledger) \ {e.Version}
                    /\ \E k \in 1..Len(migrations[p]) :
                         /\ migrations[p][k].Name = e.Name
                         /\ migrations[p][k].Version = e.Version
                         /\ migrations[p][k].DownSQL = tx[p].sql
               /\ e.kind = "seed" =>
                    /\ ledger' = ledger
                    /\ \E k \in 1..Len(seeds[p]) :
                         seeds[p][k] = [Name |-> e.Name, SQL |-> tx[p].sql]
               /\ e.kind \in {"up", "down", "seed"}
       /\ (p = MainProc /\ (ledger' # ledger \/ schema' # schema)) => Logs(p)]_vars

C24_Witness ==
  /\ Done(MainProc, "Migrate") /\ ret[MainProc] = "err"
  /\ call[MainProc].failed = "commit"
  /\ Len(call[MainProc].log) >= 1
  /\ Len(call[MainProc].opened) = Len(call[MainProc].log) + 1
  /\ Cardinality(ledger) = Cardinality(call[MainProc].ledger0) + Len(call[MainProc].log)

\* ------------------------------------------------------ rollback's report
\* the rollback command of p has logged its success line
RollbackSucceeded(p) ==
  /\ cmd[p].exited /\ cmd[p].name = "rollback"
  /\ call[p].op = "Rollback" /\ ret[p] = "nil"

\* C25: when the rollback command succeeds, the number it logs as rolled
\* back equals the number of migrations whose down-transaction committed in
\* that invocation, for every steps argument (also steps above the number
\* of applied migrations and steps <= 0).
C25_RollbackCount ==
  \A p \in Procs :
    RollbackSucceeded(p) => cmd[p].reported = Len(call[p].log)

\* ------------------------------------------------------- the ledger table
\* C26: only Migrate() creates the ledger table.  Rollback(steps) with
\* steps > 0 on a database without the table returns the error of the
\* applied-versions query, does not create the table, opens no transaction
\* and executes no down-statements; a Migrate() that fails at table creation
\* or at the applied-versions query attempts no migration.
C26_LedgerTable ==
  /\ [](\A p \in Procs :
          /\ (Done(p, "Rollback") /\ steps[p] > 0 /\ ~tableExists) =>
               /\ ret[p] = "err" /\ call[p].failed = "query"
               /\ call[p].dbCalls = 1
               /\ call[p].attempted = <<>> /\ call[p].opened = <<>>
               /\ call[p].log = <<>>
          /\ (call[p].op = "Migrate" /\ call[p].failed \in {"create", "query"}) =>
               /\ pc[p] = "idle" /\ ret[p] = "err"
               /\ call[p].attempted = <<>> /\ call[p].opened = <<>>
               /\ call[p].log = <<>>)
  /\ [][/\ tableExists' # tableExists =>
             /\ tableExists'
             /\ \E p \in Procs :
                  call[p].op = "Migrate" /\ pc[p] = "createMigrationsTable"
        /\ \A p \in Procs :
             (/\ call[p].op = "Rollback" /\ pc[p] = "getAppliedMigrations"
              /\ ~tableExists /\ pc'[p] # pc[p]) =>
               /\ pc'[p] = "idle" /\ ret'[p] = "err"
               /\ call'[p].failed = "query"
               /\ ~tx'[p].open
               /\ UNCHANGED <<tableExists, ledger, schema>>]_vars

C26_Witness ==
  /\ Done(1, "Rollback") /\ steps[1] > 0 /\ ~tableExists
  /\ migrations[1] # <<>>
  /\ ret[1] = "err" /\ call[1].failed = "query"
  /\ Finished(1) /\ calls[2] = 1

\* ----------------------------------------------------------- repeated loads
\* how many definitions of the list ms carry this file name
Copies(ms, name) == Cardinality({k \in 1..Len(ms) : ms[k].Name = name})

\* C27 (as amended): LoadMigrations() is not idempotent on one Migrator:
\* every successful call appends one more definition for each .sql file of
\* the source and sorts the whole list again, so only the first call on a
\* new Migrator leaves each file represented exactly once.  A following
\* Migrate() that finds a version with two or more copies unapplied commits
\* it at most once and returns an error.
C27_LoadAppends ==
  /\ [][\A p \in Procs :
          (IsLoad(p) /\ ret'[p] = "nil") =>
            LET ms == migrations'[p]
            IN /\ Len(ms) = Len(migrations[p]) + Cardinality(SqlFiles(dir))
               /\ \A id \in SqlFiles(dir) :
                    Copies(ms, Catalog[id].name)
                      = Copies(migrations[p], Catalog[id].name) + 1
               /\ \A k \in 1..(Len(ms) - 1) : ms[k].Version <= ms[k + 1].Version]_vars
  /\ [](\A p \in Procs :
          (/\ Done(p, "Migrate")
           /\ \E k \in PendingAt(p) :
                Copies(migrations[p], migrations[p][k].Name) >= 2) =>
            /\ ret[p] = "err"
            /\ \A j, k \in 1..Len(call[p].log) :
                 j # k => call[p].log[j].Version # call[p].log[k].Version)

C27_Witness ==
  /\ Done(MainProc, "Migrate") /\ calls[MainProc] = 3
  /\ prev[MainProc].op = "LoadMigrations" /\ prev[MainProc].ret = "nil"
  /\ Len(migrations[MainProc]) = 4
  /\ \A k \in 1..4 : Copies(migrations[MainProc], migrations[MainProc][k].Name) = 2
  /\ call[MainProc].failed = "insert"
  /\ Len(call[MainProc].log) = 1
  /\ call[MainProc].attempted
       = <<call[MainProc].log[1].Version, call[MainProc].log[1].Version>>

\* C27 as stated: a LoadMigrations() after a successful one, on the same
\* source, leaves the loaded list as the first call left it.
C27_Original ==
  [][\A p \in Procs :
       (/\ IsLoad(p) /\ ret'[p] = "nil"
        /\ call[p].op = "LoadMigrations" /\ ret[p] = "nil") =>
         migrations'[p] = migrations[p]]_vars

\* ----------------------------------------------------- concurrent rollback
\* one "db rollback [steps]" invocation: LoadMigrations(), then Rollback(steps)
RollbackCommand(p) ==
  \/ calls[p] = 0 /\ LoadMigrations(p)
  \/ /\ calls[p] = 1 /\ call[p].op = "LoadMigrations" /\ ret[p] = "nil"
     /\ \E n \in StepsArgs : Rollback(p, n)
  \/ getAppliedMigrations(p)
  \/ rollbackLoop(p)
  \/ rbBegin(p)
  \/ rbExecDown(p)
  \/ rbDelete(p)
  \/ rbCommit(p)

\* two invocations against the same database and the same directory, their
\* database calls interleaved in any order
RbNext ==
  \E p \in Procs : RollbackCommand(p) /\ UNCHANGED <<seedVars, cmd, parsed>>
RbSpec == Init /\ [][RbNext]_vars

\* C28 (as amended): down-statements of version v are committed only by a
\* transaction that also issues the DELETE of v's ledger row, for a v the
\* invocation read as applied, and one invocation commits them at most once;
\* the DELETE is not checked for having removed a row, so of two concurrent
\* Rollback(n) invocations that both read v as applied the second commits
\* v's down-statements again after the first has deleted the row.
C28_ConcurrentRollback ==
  /\ [][\A p \in Procs :
          CommitsDown(p) =>
            LET v == appliedMigrations[p][i[p] + 1]
                m == Current(p)
            IN /\ v \in Versions(call[p].ledger0)
               /\ tx[p].del = {v} /\ tx[p].sql = m.DownSQL /\ m.Version = v
               /\ Versions(ledger') = Versions(ledger) \ {v}
               /\ schema' = ExecSQL(m.DownSQL, schema)
               /\ \A k \in 1..Len(call[p].log) : call[p].log[k].Version # v]_vars
  /\ [](\A p \in Procs :
          \A j, k \in 1..Len(call[p].log) :
            j # k => call[p].log[j].Version # call[p].log[k].Version)

C28_Witness ==
  \E v \in AllVersions :
    /\ Done(1, "Rollback") /\ Done(2, "Rollback")
    /\ ret[1] = "nil" /\ ret[2] = "nil"
    /\ v \in Versions(call[1].ledger0) /\ v \in Versions(call[2].ledger0)
    /\ \E k \in 1..Len(call[1].log) : call[1].log[k].Version = v
    /\ \E k \in 1..Len(call[2].log) : call[2].log[k].Version = v
    /\ v \notin Versions(ledger)

\* C28 as stated: no invocation commits v's down-statements when v's ledger
\* row has already been deleted by the other.
C28_Original ==
  [][\A p \in Procs :
       CommitsDown(p) => appliedMigrations[p][i[p] + 1] \in Versions(ledger)]_vars

\* ------------------------------------------------------- frame conditions
\* the n highest versions of the set vs: min(n, size of vs) of them, none for n <= 0
Highest(n, vs) == {v \in vs : Cardinality({w \in vs : w > v}) < n}

\* C29: Migrate() never deletes or alters a ledger row, rows without a
\* loaded definition included; Rollback() never inserts a ledger row and
\* removes no version outside the min(steps, ledger size) highest ones;
\* neither changes the in-memory list of loaded definitions.
C29_Frame ==
  [][\A p \in Procs :
       /\ call'[p].op = "Migrate" =>
            /\ ledger \subseteq ledger'
            /\ migrations'[p] = migrations[p]
       /\ call'[p].op = "Rollback" =>
            /\ ledger' \subseteq ledger
            /\ Versions(call'[p].ledger0) \ Versions(ledger')
                 \subseteq Highest(steps'[p], Versions(call'[p].ledger0))
            /\ migrations'[p] = migrations[p]]_vars

C29_Witness ==
  /\ Done(MainProc, "Rollback") /\ ret[MainProc] = "nil"
  /\ steps[MainProc] = 2
  /\ Cardinality(call[MainProc].ledger0) = 3
  /\ Cardinality(ledger) = 1
  /\ \A r \in ledger : \A q \in call[MainProc].ledger0 : r.version <= q.version

\* -------------------------------------------------------------- termination
\* The commands with every database call returning: a step that is enabled
\* (the call returns, with a result or an error) is eventually taken.
LiveSpec == CmdInit /\ [][CmdNext]_vars /\ WF_vars(CmdNext)

IsPrefix(a, b) == Len(a) <= Len(b) /\ a = SubSeq(b, 1, Len(a))

\* the versions Migrate() calls runMigration for when nothing fails: those of
\* the loaded definitions absent from the ledger, in list order
PendingVersions(p) ==
  LET ks == SortAsc(PendingAt(p))
  IN [j \in 1..Len(ks) |-> migrations[p][ks[j]].Version]

\* C30: no retries and guaranteed termination.  Provided each database call
\* returns, every Migrate(), Rollback(steps) and Seed() call terminates; it
\* has opened at most one transaction per loaded definition (Migrate, Seed)
\* or at most min(steps, ledger size) transactions (Rollback); the items are
\* attempted in list order, each once, and Migrate() and Rollback() return at
\* the first failed transaction.
C30_Terminates ==
  /\ [](\A p \in Procs :
          LET c == call[p]
          IN /\ c.op \in {"Migrate", "Rollback", "Seed"} =>
                  /\ IsPrefix(c.opened, c.attempted)
                  /\ Len(c.attempted) <= Len(c.opened) + 1
             /\ c.op = "Migrate" =>
                  /\ IsPrefix(c.attempted, PendingVersions(p))
                  /\ Len(c.opened) <= Len(migrations[p])
                  /\ c.failed # "none" => pc[p] = "idle" /\ ret[p] = "err"
             /\ c.op = "Rollback" =>
                  /\ IsPrefix(c.attempted, Desc0(p))
                  /\ Len(c.opened) <= Min(IF steps[p] > 0 THEN steps[p] ELSE 0,
                                          Cardinality(c.ledger0))
                  /\ c.failed # "none" => pc[p] = "idle" /\ ret[p] = "err"
             /\ c.op = "Seed" =>
                  /\ IsPrefix(c.attempted, SeedNames(seeds[p]))
                  /\ Len(c.opened) <= Len(seeds[p]))
  /\ \A p \in Procs : (pc[p] # "idle") ~> (pc[p] = "idle")
  /\ \A p \in Procs : cmd[p].running ~> cmd[p].exited

C30_Witness ==
  /\ Done(MainProc, "Seed") /\ cmd[MainProc].exited
  /\ call[MainProc].failed = "exec" /\ ret[MainProc] = "nil"
  /\ Len(seeds[MainProc]) = 3
  /\ Len(call[MainProc].opened) = 3
  /\ Len(call[MainProc].log) = 2

====
